---- MODULE Spec2Model ----
(***************************************************************************)
(* agreed-time backend: the per-client rate limiter (main.rs and           *)
(* middleware.rs) and the event handlers over the database                 *)
(* (handlers/events.rs).                                                   *)
(***************************************************************************)
EXTENDS Integers, Sequences, FiniteSets, TLC

VARIABLES
    \* ---- rate limiter ----
    impl,       \* which RateLimitLayer the service was built from
    now,        \* the clock: Instant::now() in seconds before the limiter,
                \* NOW() in days where events expire
    clients,    \* HashMap<SocketAddr, (Instant, u32)>
    lock,       \* holder of the Mutex around clients (0: free)
    rl,         \* per request task: position in RateLimitService::call and its locals
    served,     \* calls received by the inner service, per (identity, window)
    calls,      \* number of calls started so far
    \* ---- database and handlers ----
    events,         \* table events, by id
    event_slots,    \* table event_slots, by event id, in insertion order
    participants,   \* table participants, in creation order
    availabilities, \* table availabilities, by participant id, in insertion order
    rq,             \* per handler task: position in its handler and its locals
    response,       \* the response most recently returned by a handler
    ops,            \* number of handler calls started so far
    \* ---- merge_time_ranges on its own ----
    merge_in,       \* the argument of merge_time_ranges
    merge_out,      \* what the call returned
    \* ---- the background task of main.rs ----
    cleanup         \* where its loop stands and what its last run returned

rlvars == <<impl, now, clients, lock, rl, served, calls>>
dbvars == <<events, event_slots, participants, availabilities, rq, response, ops>>
tables == <<events, event_slots, participants, availabilities>>
mvars == <<merge_in, merge_out>>
bgvars == <<cleanup>>
vars == <<impl, now, clients, lock, rl, served, calls,
          events, event_slots, participants, availabilities, rq, response, ops,
          merge_in, merge_out, cleanup>>

----------------------------------------------------------------------------
(* Bounds *)
NumTasks == 2       \* request tasks running concurrently
MaxCalls == 6       \* calls issued in one behaviour
MaxNow == 61        \* the clock stops advancing here

NumHandlers == 2    \* handler tasks running concurrently
MaxOps == 2         \* handler calls issued in one behaviour

MaxRanges == 3      \* longest list given to merge_time_ranges on its own
MaxTime == 4        \* latest instant of a range in such a list

(* Program constants *)
MAX_PARTICIPANTS == 10
MAX_NAME_LEN == 50
MAX_COMMENT_LEN == 500
MAX_TITLE_LEN == 100
MAX_DESCRIPTION_LEN == 1000
DEFAULT_SLOT_DURATION == 60
RATE_LIMIT_DURATION == 60
MAX_REQUESTS_MAIN == 5
MAX_REQUESTS_MIDDLEWARE == 60

Impls == {"main", "middleware"}

MAX_REQUESTS_PER_DURATION(i) ==
    IF i = "main" THEN MAX_REQUESTS_MAIN ELSE MAX_REQUESTS_MIDDLEWARE

Tasks == 1..NumTasks

----------------------------------------------------------------------------
(* Requests as the limiter sees them: the ConnectInfo extension (or none)  *)
(* and the x-forwarded-for header (or none), a comma-separated list.       *)

NoConn == [ip |-> "none", port |-> 0]
NoHeader == <<"absent">>

LbAddr == [ip |-> "10.0.0.1", port |-> 12345]
LbAddr2 == [ip |-> "10.0.0.1", port |-> 23456]

ValidIpv4 == {"10.0.0.1", "203.0.113.195", "198.51.100.1", "127.0.0.1"}

Requests ==
    { [conn |-> LbAddr,  xff |-> NoHeader],
      [conn |-> LbAddr,  xff |-> <<"203.0.113.195">>],
      [conn |-> LbAddr2, xff |-> <<" 203.0.113.195", "198.51.100.1">>],
      [conn |-> LbAddr,  xff |-> <<"198.51.100.1">>],
      [conn |-> LbAddr,  xff |-> <<"unknown">>],
      [conn |-> NoConn,  xff |-> NoHeader] }

\* str::trim on the header entries that occur
Trim(s) == IF s = " 203.0.113.195" THEN "203.0.113.195" ELSE s

\* client_ip.trim().parse::<Ipv4Addr>() succeeds
ParsesIpv4(s) == Trim(s) \in ValidIpv4

\* the address call() keys the table with
PeerAddr(r) ==
    IF r.conn = NoConn
    THEN [ip |-> "127.0.0.1", port |-> 0]
    ELSE IF r.xff # NoHeader /\ ParsesIpv4(r.xff[1])
         THEN [ip |-> Trim(r.xff[1]), port |-> r.conn.port]
         ELSE r.conn

Addrs == { PeerAddr(r) : r \in Requests }

----------------------------------------------------------------------------
(* The table *)

NoRecord == [last |-> -1, count |-> 0]

Get(tbl, a) == IF a \in DOMAIN tbl THEN tbl[a] ELSE NoRecord

\* faulty variant: every known client shares the record just written
Put_Shared(tbl, a, rec) == [x \in (DOMAIN tbl) \cup {a} |-> rec]

Put(tbl, a, rec) == [x \in (DOMAIN tbl) \cup {a} |-> IF x = a THEN rec ELSE tbl[x]]

\* faulty variant: the window already ends at exactly RATE_LIMIT_DURATION
Expired_Inclusive(rec, t) == t - rec.last >= RATE_LIMIT_DURATION

\* now.duration_since(*last_req_time) > RATE_LIMIT_DURATION
Expired(rec, t) == t - rec.last > RATE_LIMIT_DURATION

\* faulty variant: a window that has expired starts over with count 0
NextRecord_ResetsToZero(rec, t, max) ==
    IF rec = NoRecord THEN [last |-> t, count |-> 1]
    ELSE IF Expired(rec, t) THEN [last |-> t, count |-> 0]
    ELSE IF rec.count >= max THEN rec
    ELSE [last |-> rec.last, count |-> rec.count + 1]

\* faulty variant: a rejected call opens the window anew
NextRecord_Sliding(rec, t, max) ==
    IF rec = NoRecord THEN [last |-> t, count |-> 1]
    ELSE IF Expired(rec, t) THEN [last |-> t, count |-> 1]
    ELSE IF rec.count >= max THEN [last |-> t, count |-> rec.count]
    ELSE [last |-> rec.last, count |-> rec.count + 1]

\* faulty variant: a rejected call is counted too
NextRecord_CountsRejected(rec, t, max) ==
    IF rec = NoRecord THEN [last |-> t, count |-> 1]
    ELSE IF Expired(rec, t) THEN [last |-> t, count |-> 1]
    ELSE [last |-> rec.last, count |-> rec.count + 1]

\* the record the critical section leaves for a client whose record was rec
NextRecord(rec, t, max) ==
    IF rec = NoRecord THEN [last |-> t, count |-> 1]
    ELSE IF Expired(rec, t) THEN [last |-> t, count |-> 1]
    ELSE IF rec.count >= max THEN rec
    ELSE [last |-> rec.last, count |-> rec.count + 1]

\* should_limit
ShouldLimit(rec, t, max) ==
    /\ rec # NoRecord
    /\ ~Expired(rec, t)
    /\ rec.count >= max

ServedIn(tally, a, w) == IF <<a, w>> \in DOMAIN tally THEN tally[<<a, w>>] ELSE 0

Served(a, w) == ServedIn(served, a, w)

Idle == [pc |-> "idle", peer |-> NoConn, t |-> 0, seen |-> NoRecord,
         limit |-> FALSE, status |-> 0]

----------------------------------------------------------------------------
(* Initial states: a freshly built layer, or one where the first client    *)
(* has already used all but two requests of the window opened at time 0.   *)

WarmGap == 2

WarmTable(i) ==
    [a \in {LbAddr} |-> [last |-> 0, count |-> MAX_REQUESTS_PER_DURATION(i) - WarmGap]]

EmptyTable == [a \in {} |-> NoRecord]

InitRL ==
    /\ impl \in Impls
    /\ now = 0
    /\ \/ /\ clients = EmptyTable
          /\ served = [k \in {} |-> 0]
       \/ /\ clients = WarmTable(impl)
          /\ served = [k \in {<<LbAddr, 0>>} |-> MAX_REQUESTS_PER_DURATION(impl) - WarmGap]
    /\ lock = 0
    /\ rl = [p \in Tasks |-> Idle]
    /\ calls = 0

----------------------------------------------------------------------------
(* RateLimitService::call *)

\* the inner service receives one more call from a, accounted to window w
Forwarded(a, w) ==
    [x \in (DOMAIN served) \cup {<<a, w>>} |->
        IF x = <<a, w>> THEN Served(a, w) + 1 ELSE served[x]]

\* .expect("ConnectInfo extension missing") in main.rs
Panics(r) == impl = "main" /\ r.conn = NoConn

\* One call handled from its first to its last line with no other task
\* running in between.
RlCall(r) ==
    /\ \A p \in Tasks : rl[p].pc = "idle"
    /\ calls < MaxCalls
    /\ calls' = calls + 1
    /\ IF Panics(r)
       THEN /\ rl' = [rl EXCEPT ![1] = [Idle EXCEPT !.status = 500]]
            /\ UNCHANGED <<clients, served>>
       ELSE LET peer == PeerAddr(r)
                max == MAX_REQUESTS_PER_DURATION(impl)
                old == Get(clients, peer)
                rec == NextRecord(old, now, max)
                lim == ShouldLimit(old, now, max)
            IN /\ clients' = Put(clients, peer, rec)
               /\ served' = IF lim THEN served ELSE Forwarded(peer, rec.last)
               /\ rl' = [rl EXCEPT ![1] = [Idle EXCEPT !.peer = peer,
                                            !.status = IF lim THEN 429 ELSE 200]]
    /\ UNCHANGED <<impl, now, lock>>
    /\ UNCHANGED <<dbvars, mvars, bgvars>>

TickSteps == {RATE_LIMIT_DURATION, RATE_LIMIT_DURATION + 1}

Tick(d) ==
    /\ now + d <= MaxNow
    /\ now' = now + d
    /\ UNCHANGED <<impl, clients, lock, rl, served, calls>>
    /\ UNCHANGED <<dbvars, mvars, bgvars>>

NextRL ==
    \/ \E r \in Requests : RlCall(r)
    \/ \E d \in TickSteps : Tick(d)

----------------------------------------------------------------------------
(* RateLimitService::call with request tasks interleaving: one step per    *)
(* access to the Mutex, the clock, the table and the inner service.        *)

ConcRequests ==
    { [conn |-> LbAddr, xff |-> NoHeader],
      [conn |-> LbAddr, xff |-> <<"203.0.113.195">>] }

\* faulty variant: lock() returns even while another task holds the Mutex
LockFree_Always == TRUE

\* self.clients.lock() returns only while no task holds the Mutex
LockFree == lock = 0

\* the window a task's call is accounted to
WindowOf(task) == NextRecord(task.seen, task.t, MAX_REQUESTS_PER_DURATION(impl)).last

\* the scope of the MutexGuard: the block computing should_limit in
\* middleware.rs, the rest of call() in main.rs
ReleasedAfterUpdate == impl = "middleware"

\* call() is entered and peer_addr computed
Arrive(p, r) ==
    /\ rl[p].pc = "idle"
    /\ \A q \in Tasks : q < p => rl[q].pc # "idle"
    /\ calls < MaxCalls
    /\ calls' = calls + 1
    /\ rl' = [rl EXCEPT ![p] = [Idle EXCEPT !.pc = "lock", !.peer = PeerAddr(r)]]
    /\ UNCHANGED <<impl, now, clients, lock, served>>
    /\ UNCHANGED <<dbvars, mvars, bgvars>>

\* self.clients.lock().unwrap()
Acquire(p) ==
    /\ rl[p].pc = "lock"
    /\ LockFree
    /\ lock' = p
    /\ rl' = [rl EXCEPT ![p].pc = "read"]
    /\ UNCHANGED <<impl, now, clients, served, calls>>
    /\ UNCHANGED <<dbvars, mvars, bgvars>>

\* Instant::now() and clients.get_mut(&peer_addr)
ReadRecord(p) ==
    /\ rl[p].pc = "read"
    /\ rl' = [rl EXCEPT ![p].pc = "update", ![p].t = now,
                        ![p].seen = Get(clients, rl[p].peer)]
    /\ UNCHANGED <<impl, now, clients, lock, served, calls>>
    /\ UNCHANGED <<dbvars, mvars, bgvars>>

\* the branches of should_limit writing the record
UpdateRecord(p) ==
    /\ rl[p].pc = "update"
    /\ LET max == MAX_REQUESTS_PER_DURATION(impl)
       IN /\ clients' = Put(clients, rl[p].peer, NextRecord(rl[p].seen, rl[p].t, max))
          /\ rl' = [rl EXCEPT ![p].pc = "respond",
                              ![p].limit = ShouldLimit(rl[p].seen, rl[p].t, max)]
    /\ lock' = IF ReleasedAfterUpdate THEN 0 ELSE lock
    /\ UNCHANGED <<impl, now, served, calls>>
    /\ UNCHANGED <<dbvars, mvars, bgvars>>

\* 429, or self.inner.call(req); call() returns
Respond(p) ==
    /\ rl[p].pc = "respond"
    /\ served' = IF rl[p].limit THEN served ELSE Forwarded(rl[p].peer, WindowOf(rl[p]))
    /\ rl' = [rl EXCEPT ![p] = Idle]
    /\ lock' = IF ReleasedAfterUpdate THEN lock ELSE 0
    /\ UNCHANGED <<impl, now, clients, calls>>
    /\ UNCHANGED <<dbvars, mvars, bgvars>>

NextConc ==
    \/ \E p \in Tasks, r \in ConcRequests : Arrive(p, r)
    \/ \E p \in Tasks : Acquire(p)
    \/ \E p \in Tasks : ReadRecord(p)
    \/ \E p \in Tasks : UpdateRecord(p)
    \/ \E p \in Tasks : Respond(p)
    \/ \E d \in TickSteps : Tick(d)

----------------------------------------------------------------------------
(* Time ranges and merge_time_ranges *)

Range(a, b) == [start_at |-> a, end_at |-> b]

\* x placed behind every element whose start is not later (the sort is stable)
RECURSIVE InsertByStart(_, _)
InsertByStart(sorted, x) ==
    IF sorted = <<>> THEN <<x>>
    ELSE IF sorted[Len(sorted)].start_at <= x.start_at
         THEN Append(sorted, x)
         ELSE Append(InsertByStart(SubSeq(sorted, 1, Len(sorted) - 1), x),
                     sorted[Len(sorted)])

\* faulty variant: the list is swept in the order given
SortByStart_AsGiven(ranges) == ranges

\* ranges.sort_by(|a, b| a.start_at.cmp(&b.start_at))
RECURSIVE SortByStart(_)
SortByStart(ranges) ==
    IF ranges = <<>> THEN <<>>
    ELSE InsertByStart(SortByStart(SubSeq(ranges, 1, Len(ranges) - 1)),
                       ranges[Len(ranges)])

\* faulty variant: a range that only touches the current one starts a new one
RECURSIVE Sweep_Strict(_, _, _)
Sweep_Strict(merged, current, rest) ==
    IF rest = <<>> THEN Append(merged, current)
    ELSE LET next == Head(rest)
         IN IF next.start_at < current.end_at
            THEN Sweep_Strict(merged, IF next.end_at > current.end_at THEN [current EXCEPT !.end_at = next.end_at] ELSE current, Tail(rest))
            ELSE Sweep_Strict(Append(merged, current), next, Tail(rest))

\* faulty variant: the end of the current range is overwritten by every range merged into it
RECURSIVE Sweep_AlwaysExtends(_, _, _)
Sweep_AlwaysExtends(merged, current, rest) ==
    IF rest = <<>> THEN Append(merged, current)
    ELSE LET next == Head(rest)
         IN IF next.start_at <= current.end_at
            THEN Sweep_AlwaysExtends(merged, [current EXCEPT !.end_at = next.end_at], Tail(rest))
            ELSE Sweep_AlwaysExtends(Append(merged, current), next, Tail(rest))

\* faulty variant: the last range is never pushed
RECURSIVE Sweep_DropsLast(_, _, _)
Sweep_DropsLast(merged, current, rest) ==
    IF rest = <<>> THEN merged
    ELSE LET next == Head(rest)
         IN IF next.start_at <= current.end_at
            THEN Sweep_DropsLast(merged, IF next.end_at > current.end_at THEN [current EXCEPT !.end_at = next.end_at] ELSE current, Tail(rest))
            ELSE Sweep_DropsLast(Append(merged, current), next, Tail(rest))

\* faulty variant: a range merged from two is pushed at once and the sweep goes on
\* from the range after them
RECURSIVE Sweep_PairsOnly(_, _, _)
Sweep_PairsOnly(merged, current, rest) ==
    IF rest = <<>> THEN Append(merged, current)
    ELSE LET next == Head(rest)
             joined == IF next.end_at > current.end_at
                       THEN [current EXCEPT !.end_at = next.end_at] ELSE current
         IN IF next.start_at <= current.end_at
            THEN IF Tail(rest) = <<>> THEN Append(merged, joined)
                 ELSE Sweep_PairsOnly(Append(merged, joined), Head(Tail(rest)),
                                      Tail(Tail(rest)))
            ELSE Sweep_PairsOnly(Append(merged, current), next, Tail(rest))

\* the loop over ranges.into_iter().skip(1) and the final push
RECURSIVE Sweep(_, _, _)
Sweep(merged, current, rest) ==
    IF rest = <<>> THEN Append(merged, current)
    ELSE LET next == Head(rest)
         IN IF next.start_at <= current.end_at
            THEN Sweep(merged,
                       IF next.end_at > current.end_at
                       THEN [current EXCEPT !.end_at = next.end_at]
                       ELSE current,
                       Tail(rest))
            ELSE Sweep(Append(merged, current), next, Tail(rest))

merge_time_ranges(ranges) ==
    IF ranges = <<>> THEN <<>>
    ELSE LET sorted == SortByStart(ranges)
         IN Sweep(<<>>, sorted[1], Tail(sorted))

----------------------------------------------------------------------------
(* Request payloads.  A string is its text and its length in bytes.        *)

Str(text, len) == [text |-> text, len |-> len]
None == Str("<none>", 0)

\* s.trim().is_empty()
TrimIsEmpty(s) == s.text \in {"", "   "}

EventIds == {1, 2}

PublicToken(e) == <<"public", e>>
OrganizerToken(e) == <<"organizer", e>>
UnknownToken == <<"unknown", 0>>
EventTokens ==
    {PublicToken(e) : e \in EventIds} \cup {OrganizerToken(e) : e \in EventIds}
        \cup {UnknownToken}

\* the token column of participants defaults to a fresh uuid per row
ParticipantToken(id) == <<"participant", id>>

Alice == Str("Alice", 5)
Bob == Str("Bob", 3)
Guest == Str("Guest", 5)

ValidSubmissions ==
    { [participant_name |-> Alice, comment |-> None,
       availabilities |-> <<Range(0, 1)>>],
      [participant_name |-> Bob, comment |-> Str("late", 4),
       availabilities |-> <<Range(2, 4), Range(0, 1), Range(1, 3)>>] }

InvalidSubmissions ==
    { [participant_name |-> Str("   ", 3), comment |-> None,
       availabilities |-> <<Range(0, 1)>>],
      [participant_name |-> Str("L51", MAX_NAME_LEN + 1), comment |-> None,
       availabilities |-> <<Range(0, 1)>>],
      [participant_name |-> Bob, comment |-> Str("L501", MAX_COMMENT_LEN + 1),
       availabilities |-> <<Range(0, 1)>>],
      [participant_name |-> Bob, comment |-> None,
       availabilities |-> <<Range(0, 1), Range(2, 2)>>] }

Submissions == ValidSubmissions \cup InvalidSubmissions

\* the checks at the head of submit_availability and update_participant
SubmissionValid(payload) ==
    /\ ~(TrimIsEmpty(payload.participant_name) \/ payload.participant_name.len > MAX_NAME_LEN)
    /\ ~(payload.comment # None /\ payload.comment.len > MAX_COMMENT_LEN)
    /\ \A i \in DOMAIN payload.availabilities :
          ~(payload.availabilities[i].start_at >= payload.availabilities[i].end_at)

NoDuration == 0 - 1

ValidCreations ==
    { [title |-> Str("Standup", 7), description |-> None, organizer_name |-> Alice,
       time_slots |-> <<Range(1, 2), Range(0, 1)>>, slot_duration |-> NoDuration],
      [title |-> Str("Retro", 5), description |-> Str("notes", 5), organizer_name |-> Bob,
       time_slots |-> <<Range(0, 2)>>, slot_duration |-> 30] }

InvalidCreations ==
    { [title |-> Str("", 0), description |-> None, organizer_name |-> Alice,
       time_slots |-> <<Range(0, 1)>>, slot_duration |-> NoDuration],
      [title |-> Str("Retro", 5), description |-> None, organizer_name |-> Alice,
       time_slots |-> <<>>, slot_duration |-> NoDuration],
      [title |-> Str("Retro", 5), description |-> None, organizer_name |-> Alice,
       time_slots |-> <<Range(0, 1)>>, slot_duration |-> 0],
      [title |-> Str("Retro", 5), description |-> None, organizer_name |-> Alice,
       time_slots |-> <<Range(0, 1)>>, slot_duration |-> 0 - 15],
      [title |-> Str("L101", MAX_TITLE_LEN + 1), description |-> None,
       organizer_name |-> Alice, time_slots |-> <<Range(0, 1)>>,
       slot_duration |-> NoDuration],
      [title |-> Str("Retro", 5), description |-> Str("L1001", MAX_DESCRIPTION_LEN + 1),
       organizer_name |-> Alice, time_slots |-> <<Range(0, 1)>>,
       slot_duration |-> NoDuration],
      [title |-> Str("Retro", 5), description |-> None,
       organizer_name |-> Str("   ", 3), time_slots |-> <<Range(0, 1)>>,
       slot_duration |-> NoDuration],
      [title |-> Str("Retro", 5), description |-> None,
       organizer_name |-> Str("L51", MAX_NAME_LEN + 1), time_slots |-> <<Range(0, 1)>>,
       slot_duration |-> NoDuration],
      [title |-> Str("Retro", 5), description |-> None, organizer_name |-> Alice,
       time_slots |-> <<Range(0, 1), Range(3, 2)>>, slot_duration |-> NoDuration] }

Creations == ValidCreations \cup InvalidCreations

\* payload.slot_duration.unwrap_or(60)
SlotDuration(payload) ==
    IF payload.slot_duration = NoDuration THEN DEFAULT_SLOT_DURATION ELSE payload.slot_duration

\* faulty variant: the slot duration is not checked
CreationValid_AnyDuration(payload) ==
    /\ ~(TrimIsEmpty(payload.title) \/ payload.title.len > MAX_TITLE_LEN)
    /\ ~(payload.description # None /\ payload.description.len > MAX_DESCRIPTION_LEN)
    /\ ~(TrimIsEmpty(payload.organizer_name) \/ payload.organizer_name.len > MAX_NAME_LEN)
    /\ payload.time_slots # <<>>
    /\ \A i \in DOMAIN payload.time_slots :
          ~(payload.time_slots[i].start_at >= payload.time_slots[i].end_at)

\* the checks at the head of create_event
CreationValid(payload) ==
    /\ ~(TrimIsEmpty(payload.title) \/ payload.title.len > MAX_TITLE_LEN)
    /\ ~(payload.description # None /\ payload.description.len > MAX_DESCRIPTION_LEN)
    /\ ~(TrimIsEmpty(payload.organizer_name) \/ payload.organizer_name.len > MAX_NAME_LEN)
    /\ payload.time_slots # <<>>
    /\ \A i \in DOMAIN payload.time_slots :
          ~(payload.time_slots[i].start_at >= payload.time_slots[i].end_at)
    /\ ~(SlotDuration(payload) <= 0)

----------------------------------------------------------------------------
(* The tables and the queries the handlers run *)

\* SELECT id FROM events WHERE public_token = $1 (0: no row)
EventByPublicToken(token) ==
    IF \E e \in DOMAIN events : events[e].public_token = token
    THEN CHOOSE e \in DOMAIN events : events[e].public_token = token
    ELSE 0

\* ... WHERE organizer_token = $1 (0: no row)
EventByOrganizerToken(token) ==
    IF \E e \in DOMAIN events : events[e].organizer_token = token
    THEN CHOOSE e \in DOMAIN events : events[e].organizer_token = token
    ELSE 0

ParticipantsOf(rows, e) == { i \in DOMAIN rows : rows[i].event_id = e }

\* SELECT COUNT(*) FROM participants WHERE event_id = $1
CountParticipants(e) == Cardinality(ParticipantsOf(participants, e))

\* faulty variant: the participant is looked up by token alone
ParticipantByToken_AnyEvent(token, e) ==
    IF \E i \in DOMAIN participants : participants[i].token = token
    THEN CHOOSE i \in DOMAIN participants : participants[i].token = token
    ELSE 0

\* SELECT id FROM participants WHERE token = $1 AND event_id = $2 (0: no row)
ParticipantByToken(token, e) ==
    IF \E i \in DOMAIN participants :
          participants[i].token = token /\ participants[i].event_id = e
    THEN CHOOSE i \in DOMAIN participants :
          participants[i].token = token /\ participants[i].event_id = e
    ELSE 0

\* the serial id of the next participants row
NextParticipantId == Len(participants) + 1

ParticipantRow(id, e, name, organizer, comment) ==
    [id |-> id, event_id |-> e, name |-> name, is_organizer |-> organizer,
     comment |-> comment, token |-> ParticipantToken(id)]

\* was_closed is no local of the code: it notes, for the properties, whether
\* the event was closed when the request arrived
\* what an open transaction of update_participant holds and nobody else sees:
\* the name and the comment it has written, the availabilities of its
\* participant as its own statements see them, the merged ranges still to
\* be inserted; before is what was stored when it took the participant's
\* row, observed whether that participant was read while it was being replaced
NoTx == [name |-> None, comment |-> None, ranges |-> <<>>, todo |-> <<>>,
         before |-> <<>>, observed |-> FALSE]

\* name and comment of the participant get_participant has selected
NoRow == [name |-> None, comment |-> None]

\* what an open transaction of create_event has inserted and nobody else
\* sees: whether the event row and the organizer are in, the slots and the
\* organizer's availabilities so far, the merged slots still to be inserted
NoCreation == [event |-> FALSE, slots |-> <<>>, organizer |-> FALSE,
               availabilities |-> <<>>, todo |-> <<>>]

NoTask == [pc |-> "idle", op |-> "none", payload |-> None, ptoken |-> UnknownToken,
           event_id |-> 0, id |-> 0, count |-> 0, was_closed |-> FALSE,
           tx |-> NoTx, row |-> NoRow, creation |-> NoCreation]

\* AppError::code
code(err) ==
    CASE err = "Database" -> "INTERNAL_SERVER_ERROR"
      [] err = "NotFound" -> "NOT_FOUND"
      [] err = "BadRequest" -> "BAD_REQUEST"
      [] err = "ParticipantLimitReached" -> "PARTICIPANT_LIMIT_REACHED"
      [] OTHER -> "none"

Handlers == 1..NumHandlers

\* a request is taken by the first task that is free
Free(p) ==
    /\ rq[p].pc = "idle"
    /\ \A q \in Handlers : q < p => rq[q].pc # "idle"

\* the results part of a response that carries none
NoBody == [participants |-> <<>>, total_participants |-> 0]

\* what a handler returns: Ok or the AppError, the event it resolved, the
\* participant id behind a returned participant_token, the limit carried by
\* ParticipantLimitReached, the participants and total_participants of a
\* results view
Response(op, result, event_id, id, limit) ==
    [op |-> op, result |-> result, event_id |-> event_id, id |-> id, limit |-> limit,
     body |-> NoBody]

NoResponse == Response("none", "none", 0, 0, 0)

\* the handler of task p returns: its transaction, if still open, is rolled
\* back and the task is free again
Return(p, result, event_id, id, limit) ==
    /\ rq' = [rq EXCEPT ![p] = NoTask]
    /\ response' = Response(rq[p].op, result, event_id, id, limit)

\* a handler that returns in the step that starts it
ReturnAtOnce(op, result, event_id) ==
    /\ rq' = rq
    /\ response' = Response(op, result, event_id, 0, 0)

\* task p goes on with its handler
Continue(p, task) ==
    /\ rq' = [rq EXCEPT ![p] = task]
    /\ response' = response

----------------------------------------------------------------------------
(* create_event *)

CreateEvent(p, payload) ==
    /\ Free(p)
    /\ ops < MaxOps
    /\ ops' = ops + 1
    /\ IF ~CreationValid(payload)
          THEN /\ ReturnAtOnce("create_event", "BadRequest", 0)
               /\ UNCHANGED tables
          ELSE \E event_id \in EventIds \ DOMAIN events :
                  LET merged_slots == merge_time_ranges(payload.time_slots)
                      participant_id == NextParticipantId
                  IN /\ events' = [e \in DOMAIN events \cup {event_id} |->
                                     IF e = event_id
                                     THEN [public_token |-> PublicToken(event_id),
                                           organizer_token |-> OrganizerToken(event_id),
                                           title |-> payload.title,
                                           description |-> payload.description,
                                           state |-> "open",
                                           slot_duration |-> SlotDuration(payload),
                                           created_at |-> now]
                                     ELSE events[e]]
                     /\ event_slots' = [e \in DOMAIN events \cup {event_id} |->
                                          IF e = event_id THEN merged_slots
                                          ELSE event_slots[e]]
                     /\ participants' = Append(participants,
                            ParticipantRow(participant_id, event_id,
                                           payload.organizer_name, TRUE, None))
                     /\ availabilities' = Append(availabilities, merged_slots)
                     /\ ReturnAtOnce("create_event", "Ok", event_id)
    /\ UNCHANGED <<rlvars, mvars, bgvars>>

----------------------------------------------------------------------------
(* submit_availability *)

\* faulty variant: the event is looked up before the payload is checked
SubmitBegin_LooksUpFirst(p, token, payload) ==
    /\ Free(p)
    /\ ops < MaxOps
    /\ ops' = ops + 1
    /\ LET op == "submit_availability"
           event_id == EventByPublicToken(token)
       IN IF event_id = 0 THEN ReturnAtOnce(op, "NotFound", 0)
          ELSE IF ~SubmissionValid(payload) THEN ReturnAtOnce(op, "BadRequest", 0)
          ELSE Continue(p, [NoTask EXCEPT !.op = op, !.pc = "count",
                                          !.payload = payload, !.event_id = event_id,
                                          !.was_closed = events[event_id].state = "closed"])
    /\ UNCHANGED tables
    /\ UNCHANGED <<rlvars, mvars, bgvars>>

\* validation, pool.begin() and the SELECT of the event id
SubmitBegin(p, token, payload) ==
    /\ Free(p)
    /\ ops < MaxOps
    /\ ops' = ops + 1
    /\ LET op == "submit_availability"
           event_id == EventByPublicToken(token)
       IN IF ~SubmissionValid(payload) THEN ReturnAtOnce(op, "BadRequest", 0)
          ELSE IF event_id = 0 THEN ReturnAtOnce(op, "NotFound", 0)
          ELSE Continue(p, [NoTask EXCEPT !.op = op, !.pc = "count",
                                          !.payload = payload, !.event_id = event_id,
                                          !.was_closed = events[event_id].state = "closed"])
    /\ UNCHANGED tables
    /\ UNCHANGED <<rlvars, mvars, bgvars>>

\* faulty variant: the limit is compared with > instead of >=
LimitReached_OffByOne(count) == count > MAX_PARTICIPANTS

\* count >= 10
LimitReached(count) == count >= MAX_PARTICIPANTS

\* faulty variant: the participant is inserted outside the transaction before the
\* count is checked, so a denial leaves the row behind
SubmitCount_InsertsFirst(p) ==
    /\ rq[p].pc = "count"
    /\ rq[p].op = "submit_availability"
    /\ LET count == CountParticipants(rq[p].event_id)
       IN IF LimitReached(count)
          THEN /\ participants' = Append(participants,
                      ParticipantRow(NextParticipantId, rq[p].event_id,
                                     rq[p].payload.participant_name, FALSE,
                                     rq[p].payload.comment))
               /\ availabilities' = Append(availabilities, <<>>)
               /\ Return(p, "ParticipantLimitReached", rq[p].event_id, 0,
                         MAX_PARTICIPANTS)
          ELSE /\ Continue(p, [rq[p] EXCEPT !.pc = "insert", !.count = count])
               /\ UNCHANGED <<participants, availabilities>>
    /\ UNCHANGED <<events, event_slots, ops>>
    /\ UNCHANGED <<rlvars, mvars, bgvars>>

\* the SELECT COUNT(*) and the check against the limit
SubmitCount(p) ==
    /\ rq[p].pc = "count"
    /\ rq[p].op = "submit_availability"
    /\ LET count == CountParticipants(rq[p].event_id)
       IN IF LimitReached(count)
          THEN Return(p, "ParticipantLimitReached", rq[p].event_id, 0, MAX_PARTICIPANTS)
          ELSE Continue(p, [rq[p] EXCEPT !.pc = "insert", !.count = count])
    /\ UNCHANGED tables
    /\ UNCHANGED <<ops>>
    /\ UNCHANGED <<rlvars, mvars, bgvars>>

\* faulty variant: a submission under the name of an existing participant of
\* the event rewrites that participant instead of adding one
SubmitInsert_UpsertsByName(p) ==
    /\ rq[p].pc = "insert"
    /\ rq[p].op = "submit_availability"
    /\ LET payload == rq[p].payload
           same == { i \in ParticipantsOf(participants, rq[p].event_id) :
                        participants[i].name = payload.participant_name }
       IN IF same # {}
          THEN LET id == CHOOSE i \in same : \A j \in same : i <= j
               IN /\ participants' = [participants EXCEPT ![id].comment = payload.comment]
                  /\ availabilities' = [availabilities EXCEPT
                         ![id] = merge_time_ranges(payload.availabilities)]
                  /\ Return(p, "Ok", rq[p].event_id, id, 0)
          ELSE LET id == NextParticipantId
               IN /\ participants' = Append(participants,
                         ParticipantRow(id, rq[p].event_id, payload.participant_name,
                                        FALSE, payload.comment))
                  /\ availabilities' = Append(availabilities,
                         merge_time_ranges(payload.availabilities))
                  /\ Return(p, "Ok", rq[p].event_id, id, 0)
    /\ UNCHANGED <<events, event_slots, ops>>
    /\ UNCHANGED <<rlvars, mvars, bgvars>>

\* faulty variant: the participant is inserted with the organizer flag set
SubmitInsert_AsOrganizer(p) ==
    /\ rq[p].pc = "insert"
    /\ rq[p].op = "submit_availability"
    /\ LET id == NextParticipantId
           payload == rq[p].payload
       IN /\ participants' = Append(participants,
                 ParticipantRow(id, rq[p].event_id, payload.participant_name,
                                TRUE, payload.comment))
          /\ availabilities' = Append(availabilities,
                 merge_time_ranges(payload.availabilities))
          /\ Return(p, "Ok", rq[p].event_id, id, 0)
    /\ UNCHANGED <<events, event_slots, ops>>
    /\ UNCHANGED <<rlvars, mvars, bgvars>>

\* the INSERT of the participant, the replacement of its availabilities and
\* the commit, which makes them visible together
SubmitInsert(p) ==
    /\ rq[p].pc = "insert"
    /\ rq[p].op = "submit_availability"
    /\ LET id == NextParticipantId
           payload == rq[p].payload
       IN /\ participants' = Append(participants,
                 ParticipantRow(id, rq[p].event_id, payload.participant_name,
                                FALSE, payload.comment))
          /\ availabilities' = Append(availabilities,
                 merge_time_ranges(payload.availabilities))
          /\ Return(p, "Ok", rq[p].event_id, id, 0)
    /\ UNCHANGED <<events, event_slots, ops>>
    /\ UNCHANGED <<rlvars, mvars, bgvars>>

----------------------------------------------------------------------------
(* update_participant *)

\* validation, pool.begin(), the SELECT of the event and the check of its state
UpdateBegin(p, token, ptoken, payload) ==
    /\ Free(p)
    /\ ops < MaxOps
    /\ ops' = ops + 1
    /\ LET op == "update_participant"
           event_id == EventByPublicToken(token)
       IN IF ~SubmissionValid(payload) THEN ReturnAtOnce(op, "BadRequest", 0)
          ELSE IF event_id = 0 THEN ReturnAtOnce(op, "NotFound", 0)
          ELSE IF events[event_id].state = "closed"
               THEN ReturnAtOnce(op, "BadRequest", event_id)
          ELSE Continue(p, [NoTask EXCEPT !.op = op, !.pc = "find", !.payload = payload,
                                          !.ptoken = ptoken, !.event_id = event_id])
    /\ UNCHANGED tables
    /\ UNCHANGED <<rlvars, mvars, bgvars>>

\* faulty variant: an update is held to the participant limit as well
UpdateFind_ChecksLimit(p) ==
    /\ rq[p].pc = "find"
    /\ LET id == ParticipantByToken(rq[p].ptoken, rq[p].event_id)
       IN IF id = 0 THEN Return(p, "NotFound", rq[p].event_id, 0, 0)
          ELSE IF LimitReached(CountParticipants(rq[p].event_id))
               THEN Return(p, "ParticipantLimitReached", rq[p].event_id, 0,
                           MAX_PARTICIPANTS)
          ELSE Continue(p, [rq[p] EXCEPT !.pc = "write", !.id = id])
    /\ UNCHANGED tables
    /\ UNCHANGED <<ops>>
    /\ UNCHANGED <<rlvars, mvars, bgvars>>

\* the SELECT of the participant by token and event
UpdateFind(p) ==
    /\ rq[p].pc = "find"
    /\ LET id == ParticipantByToken(rq[p].ptoken, rq[p].event_id)
       IN IF id = 0 THEN Return(p, "NotFound", rq[p].event_id, 0, 0)
          ELSE Continue(p, [rq[p] EXCEPT !.pc = "write", !.id = id])
    /\ UNCHANGED tables
    /\ UNCHANGED <<ops>>
    /\ UNCHANGED <<rlvars, mvars, bgvars>>

\* faulty variant: the ranges of the payload are added to those stored
UpdateWrite_Appends(p) ==
    /\ rq[p].pc = "write"
    /\ LET id == rq[p].id
           payload == rq[p].payload
       IN /\ participants' = [participants EXCEPT
                                 ![id].name = payload.participant_name,
                                 ![id].comment = payload.comment]
          /\ availabilities' = [availabilities EXCEPT
                 ![id] = merge_time_ranges(availabilities[id] \o payload.availabilities)]
          /\ Return(p, "Ok", rq[p].event_id, id, 0)
    /\ UNCHANGED <<events, event_slots, ops>>
    /\ UNCHANGED <<rlvars, mvars, bgvars>>

\* faulty variant: the ranges of the payload are stored as they were sent
UpdateWrite_StoresAsGiven(p) ==
    /\ rq[p].pc = "write"
    /\ LET id == rq[p].id
           payload == rq[p].payload
       IN /\ participants' = [participants EXCEPT
                                 ![id].name = payload.participant_name,
                                 ![id].comment = payload.comment]
          /\ availabilities' = [availabilities EXCEPT ![id] = payload.availabilities]
          /\ Return(p, "Ok", rq[p].event_id, id, 0)
    /\ UNCHANGED <<events, event_slots, ops>>
    /\ UNCHANGED <<rlvars, mvars, bgvars>>

\* the UPDATE of the participant, the replacement of its availabilities and
\* the commit, which makes them visible together; the row lock the UPDATE
\* takes keeps a second update of the same participant waiting until then
UpdateWrite(p) ==
    /\ rq[p].pc = "write"
    /\ LET id == rq[p].id
           payload == rq[p].payload
       IN /\ participants' = [participants EXCEPT
                                 ![id].name = payload.participant_name,
                                 ![id].comment = payload.comment]
          /\ availabilities' = [availabilities EXCEPT
                                 ![id] = merge_time_ranges(payload.availabilities)]
          /\ Return(p, "Ok", rq[p].event_id, id, 0)
    /\ UNCHANGED <<events, event_slots, ops>>
    /\ UNCHANGED <<rlvars, mvars, bgvars>>

----------------------------------------------------------------------------
(* fetch_event_results_data, get_event_results and get_organizer_event *)

\* the elements of a set of ids in ascending order
RECURSIVE Ascending(_)
Ascending(ids) ==
    IF ids = {} THEN <<>>
    ELSE LET least == CHOOSE i \in ids : \A j \in ids : i <= j
         IN <<least>> \o Ascending(ids \ {least})

\* ORDER BY p.is_organizer DESC, p.created_at ASC over the participants of
\* event e; rows are created in the order of their position in the table
JoinOrder(e) ==
    Ascending({ i \in ParticipantsOf(participants, e) : participants[i].is_organizer })
      \o Ascending({ i \in ParticipantsOf(participants, e) : ~participants[i].is_organizer })

\* start_at and end_at of a participant the LEFT JOIN finds no availability for
NoRange == [start_at |-> -1, end_at |-> -1]

\* the rows the join yields for participant i, ORDER BY a.start_at
RowsOf(i) ==
    LET row(range) == [name |-> participants[i].name,
                       is_organizer |-> participants[i].is_organizer,
                       comment |-> participants[i].comment,
                       range |-> range]
        ranges == SortByStart(availabilities[i])
    IN IF ranges = <<>> THEN <<row(NoRange)>>
       ELSE [k \in 1..Len(ranges) |-> row(ranges[k])]

RECURSIVE Concat(_)
Concat(seqs) == IF seqs = <<>> THEN <<>> ELSE Head(seqs) \o Concat(Tail(seqs))

\* the rows of the SELECT ... LEFT JOIN for event e
JoinRows(e) == Concat([k \in 1..Len(JoinOrder(e)) |-> RowsOf(JoinOrder(e)[k])])

\* faulty variant: a name seen for the first time is put in front of the list
FirstSeen_InFront(names, name) == <<name>> \o names

\* participant_names.push(row.name.clone())
FirstSeen(names, name) == Append(names, name)

\* the loop over rows: participants_map, keyed by name, and participant_names
RECURSIVE Group(_, _, _)
Group(rows, participants_map, participant_names) ==
    IF rows = <<>>
    THEN [participants_map |-> participants_map, participant_names |-> participant_names]
    ELSE LET row == Head(rows)
             known == row.name \in DOMAIN participants_map
             inserted ==
                 IF known THEN participants_map
                 ELSE [n \in DOMAIN participants_map \cup {row.name} |->
                          IF n = row.name
                          THEN [is_organizer |-> row.is_organizer,
                                comment |-> row.comment, ranges |-> <<>>]
                          ELSE participants_map[n]]
             pushed ==
                 IF row.range = NoRange THEN inserted
                 ELSE [inserted EXCEPT ![row.name].ranges = Append(@, row.range)]
         IN Group(Tail(rows), pushed,
                  IF known THEN participant_names
                  ELSE FirstSeen(participant_names, row.name))

\* participants and total_participants as fetch_event_results_data returns them
fetch_event_results_data(e) ==
    LET grouped == Group(JoinRows(e), [n \in {} |-> 0], <<>>)
        names == grouped.participant_names
        data == grouped.participants_map
    IN [participants |->
           [k \in 1..Len(names) |->
               [name |-> names[k],
                is_organizer |-> data[names[k]].is_organizer,
                comment |-> data[names[k]].comment,
                availabilities |-> data[names[k]].ranges]],
        total_participants |-> Cardinality(DOMAIN data)]

\* a results view of the event a token names: one SELECT of the event and
\* fetch_event_results_data, whose join is a single statement
ResultsView(p, op, event_id) ==
    /\ Free(p)
    /\ ops < MaxOps
    /\ ops' = ops + 1
    /\ rq' = rq
    /\ response' = IF event_id = 0 THEN Response(op, "NotFound", 0, 0, 0)
                   ELSE [Response(op, "Ok", event_id, 0, 0) EXCEPT
                            !.body = fetch_event_results_data(event_id)]
    /\ UNCHANGED tables
    /\ UNCHANGED <<rlvars, mvars, bgvars>>

get_event_results(p, token) ==
    ResultsView(p, "get_event_results", EventByPublicToken(token))

get_organizer_event(p, token) ==
    ResultsView(p, "get_organizer_event", EventByOrganizerToken(token))

----------------------------------------------------------------------------
(* close_event *)

\* faulty variant: close_event on a closed event opens it again
CloseEvent_Toggles(p, token) ==
    /\ Free(p)
    /\ ops < MaxOps
    /\ ops' = ops + 1
    /\ LET event_id == EventByOrganizerToken(token)
       IN IF event_id = 0
          THEN /\ ReturnAtOnce("close_event", "NotFound", 0)
               /\ UNCHANGED events
          ELSE /\ events' = [events EXCEPT
                               ![event_id].state = IF @ = "open" THEN "closed" ELSE "open"]
               /\ ReturnAtOnce("close_event", "Ok", event_id)
    /\ UNCHANGED <<event_slots, participants, availabilities>>
    /\ UNCHANGED <<rlvars, mvars, bgvars>>

\* UPDATE events SET state = 'closed' WHERE organizer_token = $1 RETURNING ...
CloseEvent(p, token) ==
    /\ Free(p)
    /\ ops < MaxOps
    /\ ops' = ops + 1
    /\ LET event_id == EventByOrganizerToken(token)
       IN IF event_id = 0
          THEN /\ ReturnAtOnce("close_event", "NotFound", 0)
               /\ UNCHANGED events
          ELSE /\ events' = [events EXCEPT ![event_id].state = "closed"]
               /\ ReturnAtOnce("close_event", "Ok", event_id)
    /\ UNCHANGED <<event_slots, participants, availabilities>>
    /\ UNCHANGED <<rlvars, mvars, bgvars>>

----------------------------------------------------------------------------
(* check_events_status *)

MAX_BATCH_TOKENS == 50

\* n tokens, the first that of the second event, the others that of the first
ManyTokens(n) == [k \in 1..n |-> IF k = 1 THEN PublicToken(2) ELSE PublicToken(1)]

\* payload.tokens as callers send it
TokenLists ==
    { <<>>,
      <<PublicToken(1)>>,
      <<PublicToken(1), PublicToken(1)>>,
      <<UnknownToken, OrganizerToken(1), PublicToken(2)>>,
      ManyTokens(MAX_BATCH_TOKENS),
      ManyTokens(MAX_BATCH_TOKENS + 1) }

\* SELECT public_token, state FROM events WHERE public_token = ANY($1), and
\* the map the rows are inserted into
Statuses(tokens) ==
    LET rows == { e \in DOMAIN events :
                     \E k \in DOMAIN tokens : tokens[k] = events[e].public_token }
    IN [t \in { events[e].public_token : e \in rows } |->
           events[CHOOSE e \in rows : events[e].public_token = t].state]

\* faulty variant: a list is refused from MAX_BATCH_TOKENS tokens on
TooMany_Inclusive(tokens) == Len(tokens) >= MAX_BATCH_TOKENS

\* payload.tokens.len() > 50
TooMany(tokens) == Len(tokens) > MAX_BATCH_TOKENS

check_events_status(p, tokens) ==
    /\ Free(p)
    /\ ops < MaxOps
    /\ ops' = ops + 1
    /\ rq' = rq
    /\ response' =
          IF TooMany(tokens)
          THEN Response("check_events_status", "BadRequest", 0, 0, 0)
          ELSE [Response("check_events_status", "Ok", 0, 0, 0) EXCEPT
                   !.body = [statuses |->
                                IF tokens = <<>> THEN [t \in {} |-> "none"]
                                ELSE Statuses(tokens)]]
    /\ UNCHANGED tables
    /\ UNCHANGED <<rlvars, mvars, bgvars>>

----------------------------------------------------------------------------
(* Initial states of the database: one open event as create_event leaves   *)
(* it, alone or joined by guests up to the participant limit or one below it. *)

FirstEvent ==
    [public_token |-> PublicToken(1), organizer_token |-> OrganizerToken(1),
     title |-> Str("Kickoff", 7), description |-> None, state |-> "open",
     slot_duration |-> DEFAULT_SLOT_DURATION, created_at |-> 0]

InitialCounts == {1, MAX_PARTICIPANTS - 1, MAX_PARTICIPANTS}

InitDB ==
    /\ events = [e \in {1} |-> FirstEvent]
    /\ event_slots = [e \in {1} |-> <<Range(0, 4)>>]
    /\ \E n \in InitialCounts :
          /\ participants = [i \in 1..n |->
                IF i = 1 THEN ParticipantRow(1, 1, Alice, TRUE, None)
                ELSE ParticipantRow(i, 1, Guest, FALSE, None)]
          /\ availabilities = [i \in 1..n |->
                IF i = 1 THEN <<Range(0, 4)>> ELSE <<Range(0, 1)>>]
    /\ rq = [p \in Handlers |-> NoTask]
    /\ response = NoResponse
    /\ ops = 0

\* the participant tokens a caller tries: those of the organizers and of the
\* newest participant, and one that names nobody
TokensTried ==
    { participants[i].token :
        i \in { j \in DOMAIN participants :
                   participants[j].is_organizer \/ j = Len(participants) } }
      \cup {UnknownToken}

\* a guest who offers no range at all, which the checks let pass
NoRanges == [participant_name |-> Guest, comment |-> None, availabilities |-> <<>>]

\* the (token, payload) pairs a caller sends: every token with every valid
\* payload, and every invalid payload with the first event's public token
\* and with a token that names no event
SubmitRequests ==
    (EventTokens \X ValidSubmissions)
      \cup ({PublicToken(1), UnknownToken} \X InvalidSubmissions)
      \cup ({PublicToken(1)} \X {NoRanges})

NextDB ==
    \/ \E p \in Handlers, payload \in Creations : CreateEvent(p, payload)
    \/ \E p \in Handlers, r \in SubmitRequests : SubmitBegin(p, r[1], r[2])
    \/ \E p \in Handlers : SubmitCount(p)
    \/ \E p \in Handlers : SubmitInsert(p)
    \/ \E p \in Handlers, r \in SubmitRequests, ptoken \in TokensTried :
          UpdateBegin(p, r[1], ptoken, r[2])
    \/ \E p \in Handlers : UpdateFind(p)
    \/ \E p \in Handlers : UpdateWrite(p)
    \/ \E p \in Handlers, token \in EventTokens : CloseEvent(p, token)
    \/ \E p \in Handlers, token \in EventTokens : get_event_results(p, token)
    \/ \E p \in Handlers, token \in EventTokens : get_organizer_event(p, token)
    \/ \E p \in Handlers, tokens \in TokenLists : check_events_status(p, tokens)

----------------------------------------------------------------------------
(* merge_time_ranges called on its own, on every list of up to MaxRanges   *)
(* ranges with start_at < end_at, as its callers have validated.           *)

ValidRanges == { r \in [start_at : 0..MaxTime, end_at : 0..MaxTime] : r.start_at < r.end_at }

RangeLists == UNION { [1..n -> ValidRanges] : n \in 0..MaxRanges }

\* no call has returned yet
Pending == <<NoRange>>

QuietMerge == merge_in = <<>> /\ merge_out = Pending

InitMerge ==
    /\ merge_in \in RangeLists
    /\ merge_out = Pending

\* let merged = merge_time_ranges(ranges)
Merge ==
    /\ merge_out = Pending
    /\ merge_out' = merge_time_ranges(merge_in)
    /\ UNCHANGED merge_in
    /\ UNCHANGED <<rlvars, dbvars, bgvars>>

\* the list returned is given to merge_time_ranges again
MergeAgain ==
    /\ merge_out # Pending
    /\ merge_in' = merge_out
    /\ merge_out' = merge_time_ranges(merge_out)
    /\ UNCHANGED <<rlvars, dbvars, bgvars>>

NextMerge == Merge \/ MergeAgain

\* the limiter with the database left alone, and the handlers with the
\* limiter left alone
QuietDB == InitDB /\ Len(participants) = 1

QuietRL == InitRL /\ impl = "main" /\ clients = EmptyTable

\* the background task before its first tick
Asleep == [pc |-> "sleep", last |-> "none", count |-> 0]

QuietBg == cleanup = Asleep

\* the limiter starts over a database at rest, the handlers behind a fresh
\* limiter, merge_time_ranges on its own with both at rest
InitLimiter == InitRL /\ QuietDB /\ QuietMerge /\ QuietBg
Init == InitDB /\ QuietRL /\ QuietMerge /\ QuietBg
InitMergeAlone == InitMerge /\ QuietDB /\ QuietRL /\ QuietBg

SpecRL == InitLimiter /\ [][NextRL]_vars
SpecConc == InitLimiter /\ [][NextConc]_vars

Spec == Init /\ [][NextDB]_vars

SpecMerge == InitMergeAlone /\ [][NextMerge]_vars

----------------------------------------------------------------------------
(* update_participant statement by statement, next to get_participant and
   the results views. The statements of the transaction act on what the
   transaction holds; the tables other connections read change at COMMIT. *)

\* the payloads sent to update_participant here: one of them merges to two
\* ranges
TxSubmissions ==
    ValidSubmissions \cup
      { [participant_name |-> Bob, comment |-> None,
         availabilities |-> <<Range(2, 3), Range(0, 1)>>] }

\* the places of a transaction that has written to its participant's row
TxWriting == {"delete", "insert"}

\* the row of participant id is locked by a transaction other than that of p
RowLocked(p, id) ==
    \E q \in Handlers \ {p} :
        rq[q].op = "update_participant" /\ rq[q].pc \in TxWriting /\ rq[q].id = id

\* UPDATE participants SET name, comment WHERE id = $3, which waits for the
\* row while another transaction holds it
TxUpdate(p) ==
    /\ rq[p].op = "update_participant"
    /\ rq[p].pc = "write"
    /\ ~RowLocked(p, rq[p].id)
    /\ Continue(p, [rq[p] EXCEPT
                      !.pc = "delete",
                      !.tx = [NoTx EXCEPT
                                !.name = rq[p].payload.participant_name,
                                !.comment = rq[p].payload.comment,
                                !.ranges = availabilities[rq[p].id],
                                !.before = availabilities[rq[p].id]]])
    /\ UNCHANGED tables
    /\ UNCHANGED <<ops>>
    /\ UNCHANGED <<rlvars, mvars, bgvars>>

\* faulty variant: the DELETE is run on the pool and not in the transaction
TxDelete_OnPool(p) ==
    /\ rq[p].op = "update_participant"
    /\ rq[p].pc = "delete"
    /\ availabilities' = [availabilities EXCEPT ![rq[p].id] = <<>>]
    /\ Continue(p, [rq[p] EXCEPT
                      !.pc = "insert",
                      !.tx.ranges = <<>>,
                      !.tx.todo = merge_time_ranges(rq[p].payload.availabilities)])
    /\ UNCHANGED <<events, event_slots, participants, ops>>
    /\ UNCHANGED <<rlvars, mvars, bgvars>>

\* DELETE FROM availabilities WHERE participant_id = $1, then
\* let merged = merge_time_ranges(payload.availabilities)
TxDelete(p) ==
    /\ rq[p].op = "update_participant"
    /\ rq[p].pc = "delete"
    /\ Continue(p, [rq[p] EXCEPT
                      !.pc = "insert",
                      !.tx.ranges = <<>>,
                      !.tx.todo = merge_time_ranges(rq[p].payload.availabilities)])
    /\ UNCHANGED tables
    /\ UNCHANGED <<ops>>
    /\ UNCHANGED <<rlvars, mvars, bgvars>>

\* one INSERT INTO availabilities of the loop over merged
TxInsert(p) ==
    /\ rq[p].op = "update_participant"
    /\ rq[p].pc = "insert"
    /\ rq[p].tx.todo # <<>>
    /\ Continue(p, [rq[p] EXCEPT
                      !.tx.ranges = Append(@, Head(rq[p].tx.todo)),
                      !.tx.todo = Tail(@)])
    /\ UNCHANGED tables
    /\ UNCHANGED <<ops>>
    /\ UNCHANGED <<rlvars, mvars, bgvars>>

\* transaction.commit(): what the transaction wrote is stored
TxCommit(p) ==
    /\ rq[p].op = "update_participant"
    /\ rq[p].pc = "insert"
    /\ rq[p].tx.todo = <<>>
    /\ participants' = [participants EXCEPT
                          ![rq[p].id].name = rq[p].tx.name,
                          ![rq[p].id].comment = rq[p].tx.comment]
    /\ availabilities' = [availabilities EXCEPT ![rq[p].id] = rq[p].tx.ranges]
    /\ Return(p, "Ok", rq[p].event_id, rq[p].id, 0)
    /\ UNCHANGED <<events, event_slots, ops>>
    /\ UNCHANGED <<rlvars, mvars, bgvars>>

\* a statement of the transaction, or its commit, fails: the ? returns
\* AppError::Database and the transaction is dropped, which rolls it back
TxFail(p) ==
    /\ rq[p].op = "update_participant"
    /\ rq[p].pc \in {"write"} \cup TxWriting
    /\ Return(p, "Database", rq[p].event_id, 0, 0)
    /\ UNCHANGED tables
    /\ UNCHANGED <<ops>>
    /\ UNCHANGED <<rlvars, mvars, bgvars>>

\* get_participant: SELECT id FROM events WHERE public_token = $1
GetBegin(p, token, ptoken) ==
    /\ Free(p)
    /\ ops < MaxOps
    /\ ops' = ops + 1
    /\ LET op == "get_participant"
           event_id == EventByPublicToken(token)
       IN IF event_id = 0 THEN ReturnAtOnce(op, "NotFound", 0)
          ELSE Continue(p, [NoTask EXCEPT !.op = op, !.pc = "participant",
                                          !.ptoken = ptoken, !.event_id = event_id])
    /\ UNCHANGED tables
    /\ UNCHANGED <<rlvars, mvars, bgvars>>

\* SELECT id, name, comment FROM participants WHERE token = $1 AND event_id = $2
GetFind(p) ==
    /\ rq[p].pc = "participant"
    /\ LET id == ParticipantByToken(rq[p].ptoken, rq[p].event_id)
       IN IF id = 0 THEN Return(p, "NotFound", rq[p].event_id, 0, 0)
          ELSE Continue(p, [rq[p] EXCEPT
                              !.pc = "availabilities", !.id = id,
                              !.row = [name |-> participants[id].name,
                                       comment |-> participants[id].comment]])
    /\ UNCHANGED tables
    /\ UNCHANGED <<ops>>
    /\ UNCHANGED <<rlvars, mvars, bgvars>>

\* SELECT start_at, end_at FROM availabilities WHERE participant_id = $1
\* ORDER BY start_at, and the ParticipantResponse; a transaction that is
\* replacing the ranges of that participant is marked as observed
GetRead(p) ==
    /\ rq[p].pc = "availabilities"
    /\ response' = [Response("get_participant", "Ok", rq[p].event_id, rq[p].id, 0)
                       EXCEPT !.body = [name |-> rq[p].row.name,
                                        comment |-> rq[p].row.comment,
                                        availabilities |->
                                            SortByStart(availabilities[rq[p].id])]]
    /\ rq' = [q \in Handlers |->
                IF q = p THEN NoTask
                ELSE IF /\ rq[q].op = "update_participant"
                        /\ rq[q].pc = "insert"
                        /\ rq[q].id = rq[p].id
                     THEN [rq[q] EXCEPT !.tx.observed = TRUE]
                     ELSE rq[q]]
    /\ UNCHANGED tables
    /\ UNCHANGED <<ops>>
    /\ UNCHANGED <<rlvars, mvars, bgvars>>

NextTx ==
    \/ \E p \in Handlers, token \in EventTokens, ptoken \in TokensTried,
          payload \in TxSubmissions : UpdateBegin(p, token, ptoken, payload)
    \/ \E p \in Handlers : UpdateFind(p)
    \/ \E p \in Handlers : TxUpdate(p)
    \/ \E p \in Handlers : TxDelete(p)
    \/ \E p \in Handlers : TxInsert(p)
    \/ \E p \in Handlers : TxCommit(p)
    \/ \E p \in Handlers : TxFail(p)
    \/ \E p \in Handlers, token \in EventTokens, ptoken \in TokensTried :
          GetBegin(p, token, ptoken)
    \/ \E p \in Handlers : GetFind(p)
    \/ \E p \in Handlers : GetRead(p)
    \/ \E p \in Handlers, token \in EventTokens : get_event_results(p, token)

SpecTx == Init /\ [][NextTx]_vars

----------------------------------------------------------------------------
(* AppError::into_response, and the handlers behind the limiter of main.rs *)

\* an AppError: its variant and what the variant carries (the sqlx::Error of
\* Database, the message of BadRequest, the limit of ParticipantLimitReached)
AppError(kind, detail) == [kind |-> kind, detail |-> detail]

\* format!("Event has reached maximum limit of {} participants", limit)
LimitMessage(limit) == <<"Event has reached maximum limit of ", limit, " participants">>

\* faulty variant: the text of the sqlx::Error is sent to the caller
into_response_LeaksDetail(err) ==
    [status |-> CASE err.kind = "Database" -> 500
                  [] err.kind = "NotFound" -> 404
                  [] OTHER -> 400,
     error |-> CASE err.kind = "Database" -> err.detail
                 [] err.kind = "NotFound" -> "Resource not found"
                 [] err.kind = "BadRequest" -> err.detail
                 [] OTHER -> LimitMessage(err.detail),
     code |-> code(err.kind)]

\* status and the error and code fields of the JSON body
into_response(err) ==
    [status |-> CASE err.kind = "Database" -> 500
                  [] err.kind = "NotFound" -> 404
                  [] OTHER -> 400,
     error |-> CASE err.kind = "Database" -> "Database error"
                 [] err.kind = "NotFound" -> "Resource not found"
                 [] err.kind = "BadRequest" -> err.detail
                 [] OTHER -> LimitMessage(err.detail),
     code |-> code(err.kind)]

\* a statement of the transaction of submit_availability, or its commit,
\* fails: the ? returns AppError::Database and the transaction is rolled back
SubmitFail(p) ==
    /\ rq[p].op = "submit_availability"
    /\ rq[p].pc \in {"count", "insert"}
    /\ Return(p, "Database", rq[p].event_id, 0, 0)
    /\ UNCHANGED tables
    /\ UNCHANGED <<ops>>
    /\ UNCHANGED <<rlvars, mvars, bgvars>>

\* a request that reaches the process directly, with no x-forwarded-for
DirectRequest == [conn |-> LbAddr, xff |-> NoHeader]

\* submit_availability, and the calls of one client as the limiter takes them
NextApp ==
    \/ \E p \in Handlers, r \in SubmitRequests : SubmitBegin(p, r[1], r[2])
    \/ \E p \in Handlers : SubmitCount(p)
    \/ \E p \in Handlers : SubmitInsert(p)
    \/ \E p \in Handlers : SubmitFail(p)
    \/ RlCall(DirectRequest)

SpecApp == Init /\ [][NextApp]_vars

----------------------------------------------------------------------------
(* create_event statement by statement, next to the results views. The     *)
(* statements of the transaction act on what the transaction holds; the    *)
(* tables other connections read change at COMMIT.                         *)

\* the payloads sent to create_event here: one of them merges to two slots
TxCreations ==
    ValidCreations \cup
      { [title |-> Str("Offsite", 7), description |-> None, organizer_name |-> Bob,
         time_slots |-> <<Range(3, 4), Range(0, 1)>>, slot_duration |-> NoDuration] }

\* the checks, pool.begin() and the tokens and id of the event to be
CreateBegin(p, payload) ==
    /\ Free(p)
    /\ ops < MaxOps
    /\ ops' = ops + 1
    /\ IF ~CreationValid(payload)
       THEN ReturnAtOnce("create_event", "BadRequest", 0)
       ELSE \E event_id \in EventIds \ (DOMAIN events \cup
                                { rq[q].event_id : q \in Handlers }) :
               Continue(p, [NoTask EXCEPT !.op = "create_event", !.pc = "ins_event",
                                          !.payload = payload, !.event_id = event_id])
    /\ UNCHANGED tables
    /\ UNCHANGED <<rlvars, mvars, bgvars>>

\* the row create_event inserts into events
EventRow(event_id, payload) ==
    [public_token |-> PublicToken(event_id),
     organizer_token |-> OrganizerToken(event_id),
     title |-> payload.title,
     description |-> payload.description,
     state |-> "open",
     slot_duration |-> SlotDuration(payload),
     created_at |-> now]

\* faulty variant: the event row is inserted on the pool and not in the
\* transaction
CreateInsertEvent_OnPool(p) ==
    /\ rq[p].op = "create_event"
    /\ rq[p].pc = "ins_event"
    /\ events' = [e \in DOMAIN events \cup {rq[p].event_id} |->
                    IF e = rq[p].event_id THEN EventRow(e, rq[p].payload) ELSE events[e]]
    /\ event_slots' = [e \in DOMAIN events \cup {rq[p].event_id} |->
                         IF e = rq[p].event_id THEN <<>> ELSE event_slots[e]]
    /\ Continue(p, [rq[p] EXCEPT
                      !.pc = "ins_slots",
                      !.creation.event = TRUE,
                      !.creation.todo = merge_time_ranges(rq[p].payload.time_slots)])
    /\ UNCHANGED <<participants, availabilities, ops>>
    /\ UNCHANGED <<rlvars, mvars, bgvars>>

\* INSERT INTO events, then let merged_slots = merge_time_ranges(...)
CreateInsertEvent(p) ==
    /\ rq[p].op = "create_event"
    /\ rq[p].pc = "ins_event"
    /\ Continue(p, [rq[p] EXCEPT
                      !.pc = "ins_slots",
                      !.creation.event = TRUE,
                      !.creation.todo = merge_time_ranges(rq[p].payload.time_slots)])
    /\ UNCHANGED tables
    /\ UNCHANGED <<ops>>
    /\ UNCHANGED <<rlvars, mvars, bgvars>>

\* one INSERT INTO event_slots of the loop over merged_slots
CreateInsertSlot(p) ==
    /\ rq[p].op = "create_event"
    /\ rq[p].pc = "ins_slots"
    /\ rq[p].creation.todo # <<>>
    /\ Continue(p, [rq[p] EXCEPT
                      !.creation.slots = Append(@, Head(rq[p].creation.todo)),
                      !.creation.todo = Tail(@)])
    /\ UNCHANGED tables
    /\ UNCHANGED <<ops>>
    /\ UNCHANGED <<rlvars, mvars, bgvars>>

\* INSERT INTO participants (event_id, name, is_organizer) ... true
CreateInsertOrganizer(p) ==
    /\ rq[p].op = "create_event"
    /\ rq[p].pc = "ins_slots"
    /\ rq[p].creation.todo = <<>>
    /\ Continue(p, [rq[p] EXCEPT
                      !.pc = "ins_avail",
                      !.creation.organizer = TRUE,
                      !.creation.todo = rq[p].creation.slots])
    /\ UNCHANGED tables
    /\ UNCHANGED <<ops>>
    /\ UNCHANGED <<rlvars, mvars, bgvars>>

\* one INSERT INTO availabilities of the second loop over merged_slots
CreateInsertAvailability(p) ==
    /\ rq[p].op = "create_event"
    /\ rq[p].pc = "ins_avail"
    /\ rq[p].creation.todo # <<>>
    /\ Continue(p, [rq[p] EXCEPT
                      !.creation.availabilities = Append(@, Head(rq[p].creation.todo)),
                      !.creation.todo = Tail(@)])
    /\ UNCHANGED tables
    /\ UNCHANGED <<ops>>
    /\ UNCHANGED <<rlvars, mvars, bgvars>>

\* transaction.commit(): what the transaction inserted is stored
CreateCommit(p) ==
    /\ rq[p].op = "create_event"
    /\ rq[p].pc = "ins_avail"
    /\ rq[p].creation.todo = <<>>
    /\ LET event_id == rq[p].event_id
       IN /\ events' = [e \in DOMAIN events \cup {event_id} |->
                          IF e = event_id THEN EventRow(e, rq[p].payload) ELSE events[e]]
          /\ event_slots' = [e \in DOMAIN events \cup {event_id} |->
                               IF e = event_id THEN rq[p].creation.slots
                               ELSE event_slots[e]]
          /\ participants' = Append(participants,
                 ParticipantRow(NextParticipantId, event_id,
                                rq[p].payload.organizer_name, TRUE, None))
          /\ availabilities' = Append(availabilities, rq[p].creation.availabilities)
          /\ Return(p, "Ok", event_id, NextParticipantId, 0)
    /\ UNCHANGED <<ops>>
    /\ UNCHANGED <<rlvars, mvars, bgvars>>

\* a statement of the transaction, or its commit, fails: the ? returns
\* AppError::Database and the transaction is dropped, which rolls it back
CreateFail(p) ==
    /\ rq[p].op = "create_event"
    /\ rq[p].pc \in {"ins_event", "ins_slots", "ins_avail"}
    /\ Return(p, "Database", 0, 0, 0)
    /\ UNCHANGED tables
    /\ UNCHANGED <<ops>>
    /\ UNCHANGED <<rlvars, mvars, bgvars>>

NextCreate ==
    \/ \E p \in Handlers, payload \in TxCreations \cup InvalidCreations :
          CreateBegin(p, payload)
    \/ \E p \in Handlers : CreateInsertEvent(p)
    \/ \E p \in Handlers : CreateInsertSlot(p)
    \/ \E p \in Handlers : CreateInsertOrganizer(p)
    \/ \E p \in Handlers : CreateInsertAvailability(p)
    \/ \E p \in Handlers : CreateCommit(p)
    \/ \E p \in Handlers : CreateFail(p)
    \/ \E p \in Handlers, token \in EventTokens : get_event_results(p, token)

SpecCreate == Init /\ [][NextCreate]_vars

----------------------------------------------------------------------------
(* delete_expired_events and the task of main.rs that runs it every hour,  *)
(* next to submit_availability. The clock counts days.                     *)

RETENTION_DAYS == 7
MaxDay == 8         \* the clock stops advancing here

\* faulty variant: an event exactly seven days old is deleted as well
PastRetention_Inclusive(e) == events[e].created_at <= now - RETENTION_DAYS

\* created_at < NOW() - INTERVAL '7 days'
PastRetention(e) == events[e].created_at < now - RETENTION_DAYS

\* an event created a day after the first, open or closed since
SecondEvent(state) ==
    [public_token |-> PublicToken(2), organizer_token |-> OrganizerToken(2),
     title |-> Str("Retro", 5), description |-> None, state |-> state,
     slot_duration |-> 30, created_at |-> 1]

\* seven days after the first event was created
InitCleanup ==
    /\ impl = "main"
    /\ now = RETENTION_DAYS
    /\ clients = EmptyTable
    /\ served = [k \in {} |-> 0]
    /\ lock = 0
    /\ rl = [p \in Tasks |-> Idle]
    /\ calls = 0
    /\ \E state \in {"open", "closed"} :
          events = [e \in {1, 2} |-> IF e = 1 THEN FirstEvent ELSE SecondEvent(state)]
    /\ event_slots = [e \in {1, 2} |-> IF e = 1 THEN <<Range(0, 4)>> ELSE <<Range(0, 2)>>]
    /\ participants = <<ParticipantRow(1, 1, Alice, TRUE, None),
                        ParticipantRow(2, 2, Bob, TRUE, None)>>
    /\ availabilities = <<(<<Range(0, 4)>>), (<<Range(0, 2)>>)>>
    /\ rq = [p \in Handlers |-> NoTask]
    /\ response = NoResponse
    /\ ops = 0
    /\ merge_in = <<>>
    /\ merge_out = Pending
    /\ cleanup = Asleep

DayPasses ==
    /\ now < MaxDay
    /\ now' = now + 1
    /\ UNCHANGED <<impl, clients, lock, rl, served, calls>>
    /\ UNCHANGED <<dbvars, mvars, bgvars>>

\* interval.tick().await returns
CleanupTick ==
    /\ cleanup.pc = "sleep"
    /\ cleanup' = [cleanup EXCEPT !.pc = "run"]
    /\ UNCHANGED <<rlvars, dbvars, mvars>>

\* delete_expired_events returns Ok(rows_affected) and the loop goes on; rows
\* of other tables that refer to a deleted event are left to the schema
CleanupOk ==
    /\ cleanup.pc = "run"
    /\ LET expired == { e \in DOMAIN events : PastRetention(e) }
       IN /\ events' = [e \in DOMAIN events \ expired |-> events[e]]
          /\ cleanup' = [pc |-> "sleep", last |-> "Ok", count |-> Cardinality(expired)]
    /\ UNCHANGED <<event_slots, participants, availabilities, rq, response, ops>>
    /\ UNCHANGED <<rlvars, mvars>>

\* faulty variant: the loop ends when delete_expired_events returns Err
CleanupErr_Stops ==
    /\ cleanup.pc = "run"
    /\ cleanup' = [pc |-> "stopped", last |-> "Err", count |-> 0]
    /\ UNCHANGED <<rlvars, dbvars, mvars>>

\* delete_expired_events returns Err(e): tracing::error! and the loop goes on
CleanupErr ==
    /\ cleanup.pc = "run"
    /\ cleanup' = [pc |-> "sleep", last |-> "Err", count |-> 0]
    /\ UNCHANGED <<rlvars, dbvars, mvars>>

NextCleanup ==
    \/ DayPasses
    \/ CleanupTick
    \/ CleanupOk
    \/ CleanupErr
    \/ \E p \in Handlers, e \in EventIds, payload \in ValidSubmissions :
          SubmitBegin(p, PublicToken(e), payload)
    \/ \E p \in Handlers : SubmitCount(p)
    \/ \E p \in Handlers : SubmitInsert(p)

SpecCleanup == InitCleanup /\ [][NextCleanup]_vars

\* the timer of the interval fires every hour and the runtime goes on
\* polling the task, so a tick that is due and a run that has begun happen
SpecCleanupLive ==
    /\ InitCleanup
    /\ [][NextCleanup]_vars
    /\ WF_vars(CleanupTick)
    /\ WF_vars(CleanupOk \/ CleanupErr)

----------------------------------------------------------------------------
(* get_participant and update_participant over two events, each called     *)
(* with the public token of either event and the participant token of      *)
(* either organizer.                                                       *)

NextAccess ==
    \/ \E p \in Handlers, e \in EventIds, i \in {1, 2}, payload \in ValidSubmissions :
          UpdateBegin(p, PublicToken(e), ParticipantToken(i), payload)
    \/ \E p \in Handlers : UpdateFind(p)
    \/ \E p \in Handlers : UpdateWrite(p)
    \/ \E p \in Handlers, e \in EventIds, i \in {1, 2} :
          GetBegin(p, PublicToken(e), ParticipantToken(i))
    \/ \E p \in Handlers : GetFind(p)
    \/ \E p \in Handlers : GetRead(p)

SpecAccess == InitCleanup /\ [][NextAccess]_vars

----------------------------------------------------------------------------
(* Properties of the handlers under Spec *)

CountIn(rows, e) == Cardinality(ParticipantsOf(rows, e))

\* task p takes a step of the named handler, leaving position pc
Steps(p, op, pc) == rq[p].op = op /\ rq[p].pc = pc /\ rq'[p] # rq[p]

\* task p takes the first step of a handler that goes on to position pc
Begins(p, op, pc) == rq[p].pc = "idle" /\ rq'[p].op = op /\ rq'[p].pc = pc

\* C1: however concurrent submit_availability calls interleave, no event
\* ever has more than MAX_PARTICIPANTS participants.
C1_CapNeverExceeded ==
    \A e \in DOMAIN events : CountParticipants(e) <= MAX_PARTICIPANTS

\* C2: a submit_availability or update_participant call that arrives after
\* the event was closed is rejected and leaves participants and
\* availabilities as they were.
C2_ClosedRejectsLaterWrites ==
    [][\A p \in Handlers :
          (rq[p].was_closed /\ rq'[p] # rq[p]) =>
              /\ rq'[p].pc = "idle" => response'.result # "Ok"
              /\ participants' = participants
              /\ availabilities' = availabilities]_vars

\* C8: a submit_availability call that counts 9 participants goes on to its
\* insert, which succeeds and makes the count 10 when it is still 9; a call
\* that counts 10 fails with ParticipantLimitReached(10), whose code is
\* PARTICIPANT_LIMIT_REACHED.
C8_TenthAdmittedEleventhDenied ==
    [][\A p \in Handlers :
          /\ Steps(p, "submit_availability", "count") =>
               LET n == CountParticipants(rq[p].event_id)
               IN /\ n = MAX_PARTICIPANTS - 1 => rq'[p].pc = "insert"
                  /\ n = MAX_PARTICIPANTS =>
                       /\ rq'[p].pc = "idle"
                       /\ response'.op = "submit_availability"
                       /\ response'.result = "ParticipantLimitReached"
                       /\ response'.limit = 10
                       /\ code(response'.result) = "PARTICIPANT_LIMIT_REACHED"
          /\ Steps(p, "submit_availability", "insert") =>
               /\ response'.result = "Ok"
               /\ CountIn(participants', rq[p].event_id)
                    = CountParticipants(rq[p].event_id) + 1]_vars

\* the tenth participant was admitted by a call and the next call was denied
C8_Witness ==
    /\ response = Response("submit_availability", "ParticipantLimitReached", 1, 0, 10)
    /\ CountParticipants(1) = MAX_PARTICIPANTS
    /\ participants[MAX_PARTICIPANTS].name # Guest

\* C9: a submit_availability call denied for the participant limit has
\* written nothing: neither its first step nor the step that counts and
\* denies changes any table.
C9_DenialWritesNothing ==
    [][\A p \in Handlers :
          (\/ Begins(p, "submit_availability", "count")
           \/ Steps(p, "submit_availability", "count")) => UNCHANGED tables]_vars

\* a call was denied on an event that held ten participants from the start
C9_Witness ==
    /\ response.result = "ParticipantLimitReached"
    /\ ops = 1
    /\ CountParticipants(response.event_id) = MAX_PARTICIPANTS

\* the event of task p already has a participant with the submitted name
NameTaken(p) ==
    \E i \in ParticipantsOf(participants, rq[p].event_id) :
        participants[i].name = rq[p].payload.participant_name

\* C10 as stated: a call by an existing participant, found by name in
\* submit_availability or by token in update_participant, succeeds whatever
\* the count is and leaves the number of participants as it was.
C10_ResubmissionInPlace ==
    [][\A p \in Handlers :
          (\/ Steps(p, "update_participant", "write")
           \/ (rq[p].op = "submit_availability" /\ rq[p].pc \in {"count", "insert"}
               /\ rq'[p].pc = "idle" /\ NameTaken(p))) =>
              /\ response'.result = "Ok"
              /\ Len(participants') = Len(participants)]_vars

\* C10 amended: update_participant, once it has found the participant by
\* token, goes on whatever the count is, succeeds, rewrites the name, the
\* comment and the availabilities of that participant only and leaves the
\* number of participants as it was; submit_availability with the name of
\* an existing participant adds a participant when it succeeds.
C10_TokenUpdateInPlace ==
    [][\A p \in Handlers :
          /\ Steps(p, "update_participant", "find") =>
               (ParticipantByToken(rq[p].ptoken, rq[p].event_id) # 0
                   => rq'[p].pc = "write")
          /\ Steps(p, "update_participant", "write") =>
               /\ response' = Response("update_participant", "Ok", rq[p].event_id,
                                       rq[p].id, 0)
               /\ Len(participants') = Len(participants)
               /\ \A i \in DOMAIN participants :
                     /\ participants'[i].id = participants[i].id
                     /\ participants'[i].event_id = participants[i].event_id
                     /\ participants'[i].token = participants[i].token
                     /\ participants'[i].is_organizer = participants[i].is_organizer
                     /\ i # rq[p].id =>
                          /\ participants'[i] = participants[i]
                          /\ availabilities'[i] = availabilities[i]
               /\ participants'[rq[p].id].name = rq[p].payload.participant_name
               /\ participants'[rq[p].id].comment = rq[p].payload.comment
               /\ availabilities'[rq[p].id]
                    = merge_time_ranges(rq[p].payload.availabilities)
          /\ (Steps(p, "submit_availability", "insert") /\ NameTaken(p)) =>
               Len(participants') = Len(participants) + 1]_vars

\* an update by token has just succeeded on an event with ten participants
C10_Witness ==
    /\ response.op = "update_participant"
    /\ response.result = "Ok"
    /\ CountParticipants(response.event_id) = MAX_PARTICIPANTS

\* the participants of event e that carry the name
Named(rows, e, name) == { i \in ParticipantsOf(rows, e) : rows[i].name = name }

\* C11: a submit_availability call that reaches its insert under the name of
\* an existing participant of the event succeeds with a new participant: the
\* participants of that name become one more, and every row and every
\* availability stored before is as it was.
C11_DuplicateNameAddsParticipant ==
    [][\A p \in Handlers :
          (Steps(p, "submit_availability", "insert") /\ NameTaken(p)) =>
              LET e == rq[p].event_id
                  name == rq[p].payload.participant_name
              IN /\ response'.result = "Ok"
                 /\ response'.id \notin DOMAIN participants
                 /\ Cardinality(Named(participants', e, name))
                      = Cardinality(Named(participants, e, name)) + 1
                 /\ \A i \in DOMAIN participants :
                       /\ participants'[i] = participants[i]
                       /\ availabilities'[i] = availabilities[i]
                 /\ ~participants'[response'.id].is_organizer]_vars

\* a guest has just been added under the organizer's name
C11_Witness ==
    /\ response.op = "submit_availability"
    /\ response.result = "Ok"
    /\ \E i \in Named(participants, response.event_id, Alice) :
          participants[i].is_organizer
    /\ participants[response.id].name = Alice
    /\ ~participants[response.id].is_organizer

\* the step is a call of get_event_results or get_organizer_event that
\* returns a results view
ResultsStep ==
    /\ ops' = ops + 1
    /\ rq' = rq
    /\ response'.op \in {"get_event_results", "get_organizer_event"}
    /\ response'.result = "Ok"

\* C12: the participants list of a results view has one entry per stored
\* participant of the event: as many entries carry a name as participants of
\* the event do.
C12_NoDedupByName ==
    [][ResultsStep =>
          LET e == response'.event_id
              list == response'.body.participants
          IN /\ Len(list) = CountParticipants(e)
             /\ \A i \in ParticipantsOf(participants, e) :
                   Cardinality({ k \in DOMAIN list : list[k].name = participants[i].name })
                     = Cardinality(Named(participants, e, participants[i].name))]_vars

\* where a participant stands in the order of the join: the organizer
\* before all others, the others as created
JoinKey(i) == IF participants[i].is_organizer THEN 0 ELSE i

\* the first participant of event e, in the order of the join, with the name
FirstNamed(e, name) ==
    CHOOSE i \in Named(participants, e, name) :
        \A j \in Named(participants, e, name) : JoinKey(i) <= JoinKey(j)

\* C13: the participants list of a results view starts with the organizer's
\* entry, and its entries stand in the order in which the join first shows
\* their participants: the organizer, then the others as created.
C13_OrderPreserved ==
    [][ResultsStep =>
          LET e == response'.event_id
              list == response'.body.participants
          IN /\ \A i \in ParticipantsOf(participants, e) :
                   \E k \in DOMAIN list : list[k].name = participants[i].name
             /\ \A k \in DOMAIN list : Named(participants, e, list[k].name) # {}
             /\ \A i \in ParticipantsOf(participants, e) :
                   participants[i].is_organizer =>
                       /\ list[1].name = participants[i].name
                       /\ list[1].is_organizer
             /\ \A k, l \in DOMAIN list :
                   k < l => JoinKey(FirstNamed(e, list[k].name))
                              < JoinKey(FirstNamed(e, list[l].name))]_vars

\* a view lists the organizer, a guest of the initial state and a
\* participant who submitted afterwards, in that order
C13_Witness ==
    /\ response.op \in {"get_event_results", "get_organizer_event"}
    /\ response.result = "Ok"
    /\ Len(response.body.participants) = 3
    /\ response.body.participants[1].name = Alice
    /\ response.body.participants[2].name = Guest
    /\ response.body.participants[3].name = Bob

\* C14: total_participants of a results view is the number of participants
\* stored for the event and the length of the participants list.
C14_TotalIsParticipantCount ==
    [][ResultsStep =>
          /\ response'.body.total_participants = CountParticipants(response'.event_id)
          /\ response'.body.total_participants = Len(response'.body.participants)]_vars

----------------------------------------------------------------------------
(* Properties of the rate limiter under SpecRL *)

\* this step is one call that reached the table
IsCall == calls' = calls + 1 /\ rl'[1].status # 500

SpecTestLimit == 5

\* C3: starting from no record, the first five calls of one identity inside
\* one window are forwarded, the record's count going 1, 2, 3, 4, 5, and
\* the sixth call inside the window is answered 429.
C3_SixthRejected ==
    [][IsCall =>
        LET a == rl'[1].peer
            old == Get(clients, a)
        IN /\ old = NoRecord =>
                 rl'[1].status = 200 /\ clients'[a].count = 1
           /\ (old # NoRecord /\ now - old.last <= RATE_LIMIT_DURATION) =>
                 /\ old.count < SpecTestLimit =>
                       rl'[1].status = 200 /\ clients'[a].count = old.count + 1
                 /\ old.count = SpecTestLimit => rl'[1].status = 429]_vars

\* C4: inside an unexpired window a call below the limit adds exactly one to
\* the count and is forwarded; a call at the limit is answered 429, leaves
\* the whole table as it was and never reaches the inner service.
C4_InWindowStep ==
    [][IsCall =>
        LET a == rl'[1].peer
            old == Get(clients, a)
            max == MAX_REQUESTS_PER_DURATION(impl)
        IN (old # NoRecord /\ ~(now - old.last > RATE_LIMIT_DURATION)) =>
              IF old.count < max
              THEN /\ clients'[a] = [last |-> old.last, count |-> old.count + 1]
                   /\ rl'[1].status = 200
                   /\ ServedIn(served', a, old.last) = Served(a, old.last) + 1
              ELSE /\ rl'[1].status = 429
                   /\ clients' = clients
                   /\ served' = served]_vars

\* a call was just rejected at the limit of the middleware.rs limiter, and
\* the same window has also seen a forwarded call
C4_Witness ==
    /\ impl = "middleware"
    /\ rl[1].status = 429
    /\ rl[1].peer \in DOMAIN clients
    /\ clients[rl[1].peer].count = MAX_REQUESTS_MIDDLEWARE
    /\ Served(rl[1].peer, clients[rl[1].peer].last) = MAX_REQUESTS_MIDDLEWARE

\* C5: a call arriving more than RATE_LIMIT_DURATION after the window start
\* is forwarded and resets the record to (now, 1), whatever the count was;
\* a call arriving exactly RATE_LIMIT_DURATION after it still belongs to the
\* old window.
C5_ResetAfterWindow ==
    [][IsCall =>
        LET a == rl'[1].peer
            old == Get(clients, a)
        IN old # NoRecord =>
             /\ now - old.last > RATE_LIMIT_DURATION =>
                  /\ rl'[1].status = 200
                  /\ clients'[a] = [last |-> now, count |-> 1]
             /\ now - old.last = RATE_LIMIT_DURATION =>
                  /\ clients'[a].last = old.last
                  /\ (rl'[1].status = 429 <=>
                         old.count >= MAX_REQUESTS_PER_DURATION(impl))]_vars

\* a client whose first window was used up is forwarded again after it
C5_Witness ==
    /\ rl[1].status = 200
    /\ rl[1].peer \in DOMAIN clients
    /\ clients[rl[1].peer] = [last |-> RATE_LIMIT_DURATION + 1, count |-> 1]
    /\ Served(rl[1].peer, 0) = MAX_REQUESTS_PER_DURATION(impl)

\* C6: a call of one identity changes the record and the tally of no other
\* identity, and it is forwarded whenever its own record is absent, expired
\* or below the limit, whatever the other records are.
C6_Independent ==
    [][IsCall =>
        LET a == rl'[1].peer
            old == Get(clients, a)
        IN /\ \A b \in DOMAIN clients : b # a => clients'[b] = clients[b]
           /\ \A k \in DOMAIN served : k[1] # a => served'[k] = served[k]
           /\ DOMAIN clients' = DOMAIN clients \cup {a}
           /\ (\/ old = NoRecord
               \/ now - old.last > RATE_LIMIT_DURATION
               \/ old.count < MAX_REQUESTS_PER_DURATION(impl)) => rl'[1].status = 200]_vars

\* one identity is at its limit and another identity was just forwarded
C6_Witness ==
    \E a \in DOMAIN clients :
        /\ clients[a].count = MAX_REQUESTS_PER_DURATION(impl)
        /\ now - clients[a].last <= RATE_LIMIT_DURATION
        /\ rl[1].peer # a
        /\ rl[1].peer \in DOMAIN clients
        /\ rl[1].status = 200

----------------------------------------------------------------------------
(* Properties of the rate limiter under SpecConc *)

\* tasks that were let through for client a in window w and have not yet
\* called the inner service
Admitted(a, w) ==
    { p \in Tasks : /\ rl[p].pc = "respond"
                    /\ ~rl[p].limit
                    /\ rl[p].peer = a
                    /\ WindowOf(rl[p]) = w }

Min(a, b) == IF a < b THEN a ELSE b

ForwardedClient == [ip |-> "203.0.113.195", port |-> 12345]

\* C7: however request tasks interleave, no increment of a record is lost
\* (its count is the number of calls let through in its window), the inner
\* service never receives more than MAX_REQUESTS_PER_DURATION calls of one
\* client in one window, and N calls of one client in a fresh window are
\* forwarded min(N, MAX_REQUESTS_PER_DURATION) times.
C7_NoLostIncrement ==
    /\ \A a \in DOMAIN clients :
          clients[a].count
            = Served(a, clients[a].last) + Cardinality(Admitted(a, clients[a].last))
    /\ \A k \in DOMAIN served : served[k] <= MAX_REQUESTS_PER_DURATION(impl)
    /\ (/\ \A p \in Tasks : rl[p].pc = "idle"
        /\ now = 0
        /\ DOMAIN clients = {ForwardedClient})
          => Served(ForwardedClient, 0) = Min(calls, MAX_REQUESTS_PER_DURATION(impl))

\* two calls of one client were in flight together; one has taken the last
\* place of the window and the other is being rejected
C7_Witness ==
    \E p, q \in Tasks :
        /\ p # q
        /\ rl[p].peer = rl[q].peer
        /\ rl[p].pc = "respond" /\ ~rl[p].limit
        /\ rl[q].pc = "respond" /\ rl[q].limit
        /\ clients[rl[p].peer].count = MAX_REQUESTS_PER_DURATION(impl)

----------------------------------------------------------------------------
(* Properties of merge_time_ranges under SpecMerge *)

\* the unit intervals [t, t+1] a list of ranges covers
Cells(list) == UNION { list[k].start_at .. (list[k].end_at - 1) : k \in DOMAIN list }

\* ordered by start, every range ending strictly before the next starts
InMergedForm(list) ==
    /\ \A k \in DOMAIN list : list[k].start_at < list[k].end_at
    /\ \A k \in 1..(Len(list) - 1) : list[k].end_at < list[k + 1].start_at

\* the lists that hold the ranges of list in some order
Reorderings(list) ==
    { [k \in DOMAIN list |-> list[f[k]]] : f \in Permutations(DOMAIN list) }

\* C15: what merge_time_ranges returns is ordered by start, its ranges are
\* pairwise non-overlapping and non-adjacent, and it covers the time the
\* argument covers; two ranges with a gap come back as they are and two
\* overlapping ranges come back as one from the smaller start to the larger end.
C15_MergedAndSameUnion ==
    merge_out # Pending =>
        /\ InMergedForm(merge_out)
        /\ Cells(merge_out) = Cells(merge_in)
        /\ merge_in = <<Range(1, 2), Range(3, 4)>> => merge_out = merge_in
        /\ merge_in = <<Range(1, 3), Range(2, 4)>> => merge_out = <<Range(1, 4)>>

\* an unordered list with an overlap and a gap has been merged
C15_Witness ==
    /\ merge_in = <<Range(3, 4), Range(1, 2), Range(0, 2)>>
    /\ merge_out = <<Range(0, 2), Range(3, 4)>>

\* C16: merging what merge_time_ranges returned returns the same list, and a
\* list already in merged form is returned unchanged.
C16_Idempotent ==
    merge_out # Pending =>
        /\ merge_time_ranges(merge_out) = merge_out
        /\ InMergedForm(merge_in) => merge_out = merge_in

\* the result of merging three ranges into two has been merged again
C16_Witness ==
    /\ merge_in = <<Range(0, 2), Range(3, 4)>>
    /\ merge_out = merge_in

\* C17: merge_time_ranges returns the same list for every order of the
\* ranges of its argument.
C17_OrderIndependent ==
    merge_out # Pending =>
        \A list \in Reorderings(merge_in) : merge_time_ranges(list) = merge_out

\* a list with two ranges of one start, not in order, has been merged
C17_Witness ==
    /\ merge_in = <<Range(1, 2), Range(0, 3), Range(0, 1)>>
    /\ merge_out = <<Range(0, 3)>>

\* C18: two ranges of the argument of which one starts where the other ends
\* lie in one range of the result, and no range of the result starts where
\* another ends.
C18_TouchingMerged ==
    merge_out # Pending =>
        /\ \A i, j \in DOMAIN merge_in :
              merge_in[i].end_at = merge_in[j].start_at =>
                  \E k \in DOMAIN merge_out :
                      /\ merge_out[k].start_at <= merge_in[i].start_at
                      /\ merge_in[j].end_at <= merge_out[k].end_at
        /\ \A k, l \in DOMAIN merge_out : merge_out[k].end_at # merge_out[l].start_at

\* two touching ranges have been merged into one
C18_Witness ==
    /\ merge_in = <<Range(1, 2), Range(0, 1)>>
    /\ merge_out = <<Range(0, 2)>>

\* C19: the empty list gives the empty list, a single range is returned
\* unchanged, and a range that contains every other range of the argument
\* is returned alone and unchanged.
C19_EdgeCases ==
    merge_out # Pending =>
        /\ merge_in = <<>> => merge_out = <<>>
        /\ Len(merge_in) = 1 => merge_out = merge_in
        /\ \A j \in DOMAIN merge_in :
              (\A i \in DOMAIN merge_in :
                  /\ merge_in[j].start_at <= merge_in[i].start_at
                  /\ merge_in[i].end_at <= merge_in[j].end_at)
                => merge_out = <<merge_in[j]>>

\* a range nested in the range before it has been absorbed
C19_Witness ==
    /\ merge_in = <<Range(0, 3), Range(1, 2)>>
    /\ merge_out = <<Range(0, 3)>>

----------------------------------------------------------------------------
(* The stored availabilities under Spec *)

\* C20: in every state the handlers reach, the ranges stored for each
\* participant are in merged form: ordered by start, each with start before
\* end, each ending strictly before the next starts.
C20_StoredInMergedForm ==
    \A i \in DOMAIN availabilities : InMergedForm(availabilities[i])

\* update_participant has stored three overlapping, unordered ranges of a
\* payload as the one range they cover
C20_Witness ==
    /\ response.op = "update_participant"
    /\ response.result = "Ok"
    /\ participants[response.id].name = Bob
    /\ availabilities[response.id] = <<Range(0, 4)>>

\* C21: a successful update_participant leaves, for its participant, the
\* merged ranges of the payload and nothing of what was stored before, and
\* leaves the ranges of every other participant as they were.
C21_FullReplacement ==
    [][\A p \in Handlers :
          Steps(p, "update_participant", "write") =>
              LET id == rq[p].id
                  sent == rq[p].payload.availabilities
              IN /\ response'.result = "Ok"
                 /\ availabilities'[id] = merge_time_ranges(sent)
                 /\ Cells(availabilities'[id]) = Cells(sent)
                 /\ DOMAIN availabilities' = DOMAIN availabilities
                 /\ \A i \in DOMAIN availabilities :
                       i # id => availabilities'[i] = availabilities[i]]_vars

\* the organizer, who had offered the whole window, has been updated to a
\* part of it
C21_Witness ==
    /\ response.op = "update_participant"
    /\ response.result = "Ok"
    /\ participants[response.id].is_organizer
    /\ availabilities[response.id] = <<Range(0, 1)>>

\* the sets of ranges a reader may be given for the participant of the open
\* transaction of task q: those stored when it began, those it is to store
CompleteSets(q) ==
    {SortByStart(rq[q].tx.before), merge_time_ranges(rq[q].payload.availabilities)}

\* C22: while a transaction of update_participant is replacing the ranges of
\* a participant, the stored ranges stay those it found; get_participant and
\* a results view give for that participant either those or the merged
\* ranges of the payload; a transaction that fails leaves every table as it
\* was, and one that commits stores the merged ranges of the payload.
C22_ReplacementAtomic ==
    [][\A q \in Handlers :
          (rq[q].op = "update_participant" /\ rq[q].pc \in TxWriting) =>
              LET id == rq[q].id
                  e == rq[q].event_id
                  name == participants[id].name
              IN /\ availabilities[id] = rq[q].tx.before
                 /\ (\E p \in Handlers :
                        /\ Steps(p, "get_participant", "availabilities")
                        /\ rq[p].id = id) =>
                        response'.body.availabilities \in CompleteSets(q)
                 /\ (ResultsStep /\ response'.event_id = e
                       /\ Named(participants, e, name) = {id}) =>
                        \A k \in DOMAIN response'.body.participants :
                            response'.body.participants[k].name = name =>
                              response'.body.participants[k].availabilities
                                 \in CompleteSets(q)
                 /\ (rq'[q].pc = "idle" /\ response'.result # "Ok") =>
                        tables' = tables
                 /\ (rq'[q].pc = "idle" /\ response'.result = "Ok") =>
                        availabilities'[id]
                           = merge_time_ranges(rq[q].payload.availabilities)]_vars

\* get_participant has returned the ranges stored before to a caller who read
\* them while a transaction had deleted them and inserted one of two
C22_Witness ==
    /\ response.op = "get_participant"
    /\ response.result = "Ok"
    /\ \E q \in Handlers :
          /\ rq[q].op = "update_participant"
          /\ rq[q].pc = "insert"
          /\ rq[q].id = response.id
          /\ rq[q].tx.observed
          /\ Len(rq[q].tx.ranges) = 1
          /\ rq[q].tx.todo # <<>>
          /\ response.body.availabilities = rq[q].tx.before
          /\ rq[q].tx.before # rq[q].tx.ranges

\* C23: an event appears through create_event and in state open; a step
\* changes the row of an event only if it is close_event on that event, and
\* then only its state, to closed; a closed event and the slots of every
\* event stay as they are.
C23_OnlyOpenToClosed ==
    [][\A e \in DOMAIN events' :
          IF e \notin DOMAIN events
          THEN /\ response'.op = "create_event"
               /\ response'.result = "Ok"
               /\ events'[e].state = "open"
          ELSE /\ event_slots'[e] = event_slots[e]
               /\ events[e].state = "closed" => events'[e] = events[e]
               /\ events'[e] # events[e] =>
                    /\ response'.op = "close_event"
                    /\ response'.event_id = e
                    /\ events'[e] = [events[e] EXCEPT !.state = "closed"]]_vars

\* an event created here has been closed by close_event and is as created
\* but for its state
C23_Witness ==
    /\ response.op = "close_event"
    /\ response.result = "Ok"
    /\ response.event_id = 2
    /\ events[2].state = "closed"
    /\ events[2].public_token = PublicToken(2)
    /\ events[1].state = "open"

\* the participants of event e with the organizer flag set
Organizers(e) == { i \in ParticipantsOf(participants, e) : participants[i].is_organizer }

\* C24: every event has exactly one participant with the organizer flag;
\* a participant has the flag from the step that creates it, which sets it
\* only in create_event, and keeps or lacks it ever after.
C24_OneOrganizer ==
    /\ [](\A e \in DOMAIN events : Cardinality(Organizers(e)) = 1)
    /\ [][\A i \in DOMAIN participants' :
             IF i \in DOMAIN participants
             THEN participants'[i].is_organizer = participants[i].is_organizer
             ELSE participants'[i].is_organizer <=> response'.op = "create_event"]_vars

\* an event created here has its organizer and a guest who has just joined
C24_Witness ==
    /\ response.op = "submit_availability"
    /\ response.result = "Ok"
    /\ response.event_id = 2
    /\ CountParticipants(2) = 2
    /\ Cardinality(Organizers(2)) = 1
    /\ ~participants[response.id].is_organizer

\* C25: the table is keyed by the client address alone, the first entry of
\* x-forwarded-for when it parses and the peer address otherwise, whatever
\* the port of the connection: calls of one client address made over
\* connections with different ports are counted in one record, so no two
\* records of the table carry the same address.
C25_PortIgnored ==
    \A a, b \in DOMAIN clients : a.ip = b.ip => a = b

\* the call is answered BadRequest at once: no transaction is begun and no
\* table is touched
Rejected(op) ==
    /\ response' = Response(op, "BadRequest", 0, 0, 0)
    /\ rq' = rq
    /\ tables' = tables

ErrorKinds == {"BadRequest", "NotFound", "ParticipantLimitReached", "Database"}

ErrorDetails(kind) ==
    CASE kind = "BadRequest" -> {"Invalid time range", "Too many tokens to check (max 50)"}
      [] kind = "NotFound" -> {""}
      [] kind = "ParticipantLimitReached" -> {MAX_PARTICIPANTS}
      [] OTHER -> {"pool timed out", "relation \"participants\" does not exist"}

\* status and code a caller gets for the failure the handler returned
Outcome(kind) ==
    { [status |-> into_response(AppError(kind, d)).status,
       code |-> into_response(AppError(kind, d)).code] : d \in ErrorDetails(kind) }

\* C27: the failure a handler returns reaches the caller as 400 BAD_REQUEST
\* for BadRequest, 404 NOT_FOUND for NotFound, 400 PARTICIPANT_LIMIT_REACHED
\* for ParticipantLimitReached and 500 with the message "Database error",
\* whatever the database said, for Database; no two kinds share status and
\* code; the limiter answers 429 when it refuses, a status no AppError has.
C27_ErrorMapping ==
    /\ response.result \in ErrorKinds =>
          /\ Outcome(response.result) =
                CASE response.result = "BadRequest" ->
                        {[status |-> 400, code |-> "BAD_REQUEST"]}
                  [] response.result = "NotFound" ->
                        {[status |-> 404, code |-> "NOT_FOUND"]}
                  [] response.result = "ParticipantLimitReached" ->
                        {[status |-> 400, code |-> "PARTICIPANT_LIMIT_REACHED"]}
                  [] OTHER -> {[status |-> 500, code |-> "INTERNAL_SERVER_ERROR"]}
          /\ response.result = "Database" =>
                \A d \in ErrorDetails("Database") :
                    into_response(AppError("Database", d)).error = "Database error"
          /\ \A other \in ErrorKinds \ {response.result} :
                Outcome(other) \cap Outcome(response.result) = {}
    /\ \A p \in Tasks :
          /\ rl[p].status \in {0, 200, 429, 500}
          /\ rl[p].status = 429 =>
                \A kind \in ErrorKinds : \A out \in Outcome(kind) : out.status # 429

\* the limiter has just refused a call, and the last handler to return
\* had lost its database
C27_Witness ==
    /\ rl[1].status = 429
    /\ response.op = "submit_availability"
    /\ response.result = "Database"

\* the requested tokens that are the public token of an event
KnownTokens(tokens) ==
    { tokens[k] : k \in DOMAIN tokens } \cap { events[e].public_token : e \in DOMAIN events }

\* C28: check_events_status answers BadRequest to more than 50 tokens and Ok
\* to 50 or fewer; the map of an Ok answer has one entry for each public
\* token of an event among the requested tokens, however often it was
\* requested, with the state the event has, and no entry for any other
\* token; the call changes no table.
C28_BatchCheck ==
    [][\A p \in Handlers, tokens \in TokenLists :
          check_events_status(p, tokens) =>
              /\ response'.op = "check_events_status"
              /\ tables' = tables
              /\ IF Len(tokens) > 50
                 THEN response'.result = "BadRequest"
                 ELSE /\ response'.result = "Ok"
                      /\ DOMAIN response'.body.statuses = KnownTokens(tokens)
                      /\ \A e \in DOMAIN events :
                            events[e].public_token \in KnownTokens(tokens) =>
                               response'.body.statuses[events[e].public_token]
                                  = events[e].state]_vars

\* fifty tokens, those of both events among them, have been answered with
\* the states of the two events
C28_Witness ==
    /\ response.op = "check_events_status"
    /\ response.result = "Ok"
    /\ DOMAIN response.body.statuses = {PublicToken(1), PublicToken(2)}
    /\ response.body.statuses[PublicToken(2)] = "open"

\* a run of delete_expired_events has returned Ok in this step
CleanupDone == cleanup.pc = "run" /\ cleanup'.pc = "sleep" /\ cleanup'.last = "Ok"

\* C29: a run of delete_expired_events that succeeds removes the events
\* created more than 7 days before now and no other, leaves the events it
\* keeps as they were, open or closed, and returns the number it removed.
C29_ExpiredOnly ==
    [][CleanupDone =>
          /\ DOMAIN events' = { e \in DOMAIN events : ~(now - events[e].created_at > 7) }
          /\ \A e \in DOMAIN events :
                now - events[e].created_at <= 7 =>
                   e \in DOMAIN events' /\ events'[e] = events[e]
          /\ cleanup'.count = Cardinality(DOMAIN events \ DOMAIN events')]_vars

\* on the eighth day a run has removed the first event and kept the second,
\* closed and seven days old
C29_Witness ==
    /\ now = 8
    /\ cleanup.last = "Ok"
    /\ cleanup.count = 1
    /\ DOMAIN events = {2}
    /\ events[2].state = "closed"
    /\ now - events[2].created_at = 7

\* a run of delete_expired_events has returned Err in this step
CleanupFailed == cleanup.pc = "run" /\ cleanup'.pc # "run" /\ cleanup'.last = "Err"

\* C30: a run of delete_expired_events that fails changes nothing but the
\* note of the failure: the tables, the handler tasks, the last response and
\* the limiter are as before and the task waits for its next tick; the task
\* never leaves its loop, and after a failure it runs again.
C30_FailureOnlyLogged ==
    /\ [][CleanupFailed =>
             /\ cleanup'.pc = "sleep"
             /\ tables' = tables
             /\ rq' = rq
             /\ response' = response
             /\ ops' = ops
             /\ rlvars' = rlvars]_vars
    /\ [](cleanup.pc \in {"sleep", "run"})
    /\ (cleanup.last = "Err" /\ cleanup.pc = "sleep") ~> (cleanup.pc = "run")

\* after a failed run the task is running again while a call of
\* submit_availability, begun before, is still in flight
C30_Witness ==
    /\ cleanup.last = "Err"
    /\ cleanup.pc = "run"
    /\ \E p \in Handlers : rq[p].op = "submit_availability" /\ rq[p].pc = "insert"

\* a transaction of create_event ends in this step
CreateEnds(p) == rq[p].op = "create_event" /\ rq[p].pc # "idle" /\ rq'[p].pc = "idle"

\* C31: every stored event has its slots, one organizer and, as long as
\* nobody has updated the organizer, the same ranges as the organizer's
\* availability; a create_event that succeeds stores the event, its merged
\* slots, the organizer and the organizer's availability in the same step,
\* and one that fails stores nothing.
C31_CreateAllOrNothing ==
    /\ [](\A e \in DOMAIN events :
             /\ e \in DOMAIN event_slots
             /\ event_slots[e] # <<>>
             /\ Cardinality(Organizers(e)) = 1
             /\ \A i \in Organizers(e) : availabilities[i] = event_slots[e])
    /\ [][\A p \in Handlers :
             CreateEnds(p) =>
                IF response'.result = "Ok"
                THEN LET e == rq[p].event_id
                         merged == merge_time_ranges(rq[p].payload.time_slots)
                     IN /\ e \notin DOMAIN events
                        /\ e \in DOMAIN events'
                        /\ event_slots'[e] = merged
                        /\ Len(participants') = Len(participants) + 1
                        /\ participants'[Len(participants')].event_id = e
                        /\ participants'[Len(participants')].is_organizer
                        /\ availabilities'[Len(participants')] = merged
                ELSE tables' = tables]_vars

\* one create_event has failed and left no event, while another has
\* inserted its event, its two slots and its organizer and is not yet
\* committed
C31_Witness ==
    /\ response.op = "create_event"
    /\ response.result = "Database"
    /\ DOMAIN events = {1}
    /\ \E p \in Handlers :
          /\ rq[p].op = "create_event"
          /\ rq[p].pc = "ins_avail"
          /\ rq[p].creation.event
          /\ rq[p].creation.organizer
          /\ Len(rq[p].creation.slots) = 2
          /\ Len(rq[p].creation.availabilities) = 1

\* C32: the slot duration of every stored event is above zero; create_event
\* refuses a payload whose slot duration is zero or less, stores 60 for one
\* that gives none and the given duration otherwise, and no step changes
\* the slot duration of an event that exists.
C32_SlotDurationPositive ==
    /\ [](\A e \in DOMAIN events : events[e].slot_duration > 0)
    /\ [][/\ \A e \in DOMAIN events \cap DOMAIN events' :
                events'[e].slot_duration = events[e].slot_duration
          /\ \A p \in Handlers, payload \in Creations :
                CreateEvent(p, payload) =>
                   IF payload.slot_duration # NoDuration /\ payload.slot_duration <= 0
                   THEN /\ response'.result = "BadRequest"
                        /\ events' = events
                   ELSE response'.result = "Ok" =>
                           events'[response'.event_id].slot_duration =
                              IF payload.slot_duration = NoDuration THEN 60
                              ELSE payload.slot_duration]_vars

\* an event created with no slot duration is stored with 60, and has since
\* been closed
C32_Witness ==
    /\ 2 \in DOMAIN events
    /\ events[2].title = Str("Standup", 7)
    /\ events[2].slot_duration = 60
    /\ events[2].state = "closed"

\* C33: the lock on the table is released before the request is forwarded:
\* no task that has made its decision and is about to call the inner
\* service, or to answer 429, holds the lock.
C33_LockReleasedBeforeForward ==
    \A p \in Tasks : rl[p].pc = "respond" => lock # p

\* C34: every record of a results view is the record of one stored
\* participant of the event: it has that participant's name, organizer flag
\* and comment, and its ranges are that participant's stored availabilities
\* in ascending order of start, with no range of anybody else.
C34_OneParticipantPerRecord ==
    [][ResultsStep =>
          LET e == response'.event_id
              list == response'.body.participants
          IN \A k \in DOMAIN list :
                \E i \in ParticipantsOf(participants, e) :
                    /\ list[k].name = participants[i].name
                    /\ list[k].is_organizer = participants[i].is_organizer
                    /\ list[k].comment = participants[i].comment
                    /\ list[k].availabilities = SortByStart(availabilities[i])]_vars

\* C35: a participant of the event who has stored no range has exactly one
\* record in a results view, that record has an empty list of ranges, and
\* total_participants counts it with every other record.
C35_NoRangesListedOnce ==
    [][ResultsStep =>
          LET e == response'.event_id
              list == response'.body.participants
          IN \A i \in ParticipantsOf(participants, e) :
                availabilities[i] = <<>> =>
                   /\ Cardinality({ k \in DOMAIN list :
                                      list[k].name = participants[i].name }) = 1
                   /\ \A k \in DOMAIN list :
                         list[k].name = participants[i].name =>
                            list[k].availabilities = <<>>
                   /\ response'.body.total_participants >= Len(list)]_vars

\* C36: however close_event and update_participant on one event interleave,
\* an update that found the event open stores nothing once the event is
\* closed: in the step that stores its name, comment and ranges the event
\* is open.
C36_NoUpdateAfterClose ==
    [][\A p \in Handlers :
          (Steps(p, "update_participant", "write") /\ response'.result = "Ok") =>
              events[rq[p].event_id].state = "open"]_vars

\* C37: every record of the table has a count of at least 1 and at most
\* MAX_REQUESTS_PER_DURATION, and no step removes a record: the clients the
\* table knows only become more.
C37_CountInRange ==
    /\ [](\A a \in DOMAIN clients :
             /\ 1 <= clients[a].count
             /\ clients[a].count <= MAX_REQUESTS_PER_DURATION(impl))
    /\ [][DOMAIN clients \subseteq DOMAIN clients']_vars

\* one client is at the limit, another has begun a new window after its
\* first had expired
C37_Witness ==
    \E a, b \in DOMAIN clients :
        /\ a # b
        /\ clients[a].count = MAX_REQUESTS_PER_DURATION(impl)
        /\ rl[1].status = 429
        /\ clients[b].count = 1
        /\ clients[b].last > 0

\* C38: the window is fixed: a call sets the start of its client's window to
\* now when the client has no record or its window has expired, and leaves
\* it as it is when the call falls inside the window, allowed or rejected;
\* the window of no other client moves. A client rejected since the start
\* of its window is therefore let through as soon as more than
\* RATE_LIMIT_DURATION has passed since that start.
C38_FixedWindow ==
    [][IsCall =>
        LET a == rl'[1].peer
            old == Get(clients, a)
        IN /\ \A b \in DOMAIN clients : b # a => clients'[b].last = clients[b].last
           /\ IF old = NoRecord \/ now - old.last > RATE_LIMIT_DURATION
              THEN clients'[a].last = now /\ rl'[1].status = 200
              ELSE clients'[a].last = old.last]_vars

\* a call has been rejected at the very end of its client's window, whose
\* start is where it was
C38_Witness ==
    /\ rl[1].status = 429
    /\ rl[1].peer \in DOMAIN clients
    /\ now - clients[rl[1].peer].last = RATE_LIMIT_DURATION
    /\ clients[rl[1].peer].count = MAX_REQUESTS_PER_DURATION(impl)

\* a table either limiter can have built
SharedTable ==
    \A b \in DOMAIN clients, i \in Impls :
        clients[b].count <= MAX_REQUESTS_PER_DURATION(i)

\* C39: the limiter of main.rs and the limiter of middleware.rs are
\* equivalent: holding the same table and taking the same call of a request
\* with connection info at the same time, each decides as the other and
\* leaves the table the other leaves, so that side by side they agree at
\* every step.
C39_SameDecisions ==
    [][(IsCall /\ rl'[1].peer.port # 0 /\ SharedTable) =>
        LET a == rl'[1].peer
            old == Get(clients, a)
        IN \A i \in Impls :
              /\ ShouldLimit(old, now, MAX_REQUESTS_PER_DURATION(i))
                    <=> rl'[1].status = 429
              /\ Put(clients, a, NextRecord(old, now, MAX_REQUESTS_PER_DURATION(i)))
                    = clients']_vars

\* the participant token task p was called with is that of a participant of
\* another event than the one its public token names
ForeignToken(p) ==
    \E i \in DOMAIN participants :
        /\ participants[i].token = rq[p].ptoken
        /\ participants[i].event_id # rq[p].event_id

\* C40: get_participant and update_participant, called with the public
\* token of one event and the token of a participant of another, answer
\* NotFound at the lookup of the participant; the update then ends there,
\* and no participant and no availability of either event has changed.
C40_TokenScopedToEvent ==
    [][\A p \in Handlers :
          ((\/ Steps(p, "update_participant", "find")
            \/ Steps(p, "get_participant", "participant")) /\ ForeignToken(p)) =>
              /\ response'.op = rq[p].op
              /\ response'.result = "NotFound"
              /\ rq'[p] = NoTask
              /\ tables' = tables]_vars

\* update_participant, called for an event only with tokens of participants
\* that exist, has answered NotFound, and both organizers are as they were
C40_Witness ==
    /\ response.op = "update_participant"
    /\ response.result = "NotFound"
    /\ response.event_id = 1
    /\ participants[1].name = Alice
    /\ participants[2].name = Bob
    /\ availabilities = <<(<<Range(0, 4)>>), (<<Range(0, 2)>>)>>

====
